---- MODULE Spec2Model ----
(***************************************************************************)
(* CaptionCraft Studio: the subtitle document engine                       *)
(* (core/vtt_engine/vtt_generator.py, class VTTGenerator) and its          *)
(* timestamp conversions.                                                  *)
(*                                                                         *)
(* A Python str is a sequence of one-character strings, so that splitting, *)
(* joining, padding and prefix tests are computed character by character.  *)
(* A Python int that is read from text is kept as its digits until it is   *)
(* scaled into a timedelta, because datetime.timedelta works on unbounded  *)
(* integers and rejects a result beyond 999999999 days.                    *)
(***************************************************************************)
EXTENDS Integers, Sequences, FiniteSets, TLC

VARIABLES
    captions,   \* VTTGenerator.captions: list of dicts start/end/text/style
    styles,     \* VTTGenerator.styles: dict name -> css, in insertion order
    calls,      \* history: the add_caption / set_style calls made so far
    op,         \* the method called last
    arg,        \* its argument
    ret,        \* what it returned (or the exception it raised)
    files,      \* the file system: path -> text of the file at that path
    config,     \* ConfigManager.config: the dicts it is made of
    tab,        \* VideoPreviewTab: its fields and the state of its play button
    threads     \* the launcher threads started by play_video, and their positions

vars == <<captions, styles, calls, op, arg, ret, files, config, tab, threads>>

\* the objects beside the document
others == <<files, config, tab, threads>>

-----------------------------------------------------------------------------
(* Bounds of the model *)

\* the number of add_caption / set_style calls made on one document
MaxCalls == 3

-----------------------------------------------------------------------------
(* Python values *)

None == <<>>
Some(x) == <<x>>

RetNone == [kind |-> "None"]
RetStr(s) == [kind |-> "str", val |-> s]
RetTd(td) == [kind |-> "timedelta", val |-> td]
Raise(exc) == [kind |-> "raise", exc |-> exc]

NL == "\n"
Digits == <<"0", "1", "2", "3", "4", "5", "6", "7", "8", "9">>
DigitChars == {Digits[i] : i \in 1..10}

\* the value of a digit character
DigitVal(c) == (CHOOSE i \in 1..10 : Digits[i] = c) - 1

RECURSIVE IntToStr(_)
\* str(n) / f"{n}" for n >= 0
IntToStr(n) ==
    IF n < 10 THEN <<Digits[n + 1]>>
    ELSE IntToStr(n \div 10) \o <<Digits[(n % 10) + 1]>>

RECURSIVE ZeroPad(_, _)
\* f"{n:0{width}d}": zero-padded on the left to AT LEAST width characters
ZeroPad(s, width) ==
    IF Len(s) >= width THEN s ELSE ZeroPad(<<"0">> \o s, width)

RECURSIVE Split(_, _)
\* s.split(sep) for a one-character separator: always at least one field
Split(s, sep) ==
    IF \A i \in 1..Len(s) : s[i] # sep THEN <<s>>
    ELSE LET k == CHOOSE i \in 1..Len(s) :
                      s[i] = sep /\ \A j \in 1..(i - 1) : s[j] # sep
         IN  <<SubSeq(s, 1, k - 1)>> \o Split(SubSeq(s, k + 1, Len(s)), sep)

\* s.replace(old, new) for one-character strings
Replace(s, old, new) ==
    [i \in 1..Len(s) |-> IF s[i] = old THEN new ELSE s[i]]

StartsWith(s, prefix) ==
    Len(s) >= Len(prefix) /\ SubSeq(s, 1, Len(prefix)) = prefix

-----------------------------------------------------------------------------
(* Text constants of vtt_generator.py *)

WEBVTT == <<"W", "E", "B", "V", "T", "T">>
STYLE == <<"S", "T", "Y", "L", "E">>
Arrow == <<" ", "-", "-", ">", " ">>
ClassOpen == <<"<", "c", ".">>
ClassClose == <<"<", "/", "c", ">">>

-----------------------------------------------------------------------------
(* VTTGenerator: the document *)

\* __init__
VTTGenerator_init ==
    /\ captions = <<>>
    /\ styles = <<>>

\* no file, no ConfigManager, no VideoPreviewTab and no thread yet
NoOthers ==
    /\ files = <<>>
    /\ config = <<>>
    /\ tab = <<>>
    /\ threads = <<>>

\* the caption dict built by add_caption
Caption(start_time, end_time, text, style) ==
    [start |-> start_time, end |-> end_time, text |-> text, style |-> style]

\* a caption put in front of the list instead of at its end
add_caption_prepends(caps, start_time, end_time, text, style) ==
    <<Caption(start_time, end_time, text, style)>> \o caps

\* self.captions.append(caption)
add_caption_result(caps, start_time, end_time, text, style) ==
    Append(caps, Caption(start_time, end_time, text, style))

RECURSIVE CssBody(_)
\* the loop of set_style: one "  prop: value;\n" per property, in dict order
CssBody(css_properties) ==
    IF css_properties = <<>> THEN <<>>
    ELSE <<" ", " ">> \o Head(css_properties)[1] \o <<":", " ">>
         \o Head(css_properties)[2] \o <<";", NL>>
         \o CssBody(Tail(css_properties))

\* css_string of set_style
CssString(css_properties) ==
    <<"{", NL>> \o CssBody(css_properties) \o <<"}">>

\* a dict that keeps the value a key was first given
DictSet_FirstWriteWins(d, key, value) ==
    IF \E i \in 1..Len(d) : d[i][1] = key THEN d ELSE Append(d, <<key, value>>)

\* d[key] = value on an insertion-ordered dict kept as a sequence of pairs:
\* an existing key keeps its place, a new key goes last
DictSet(d, key, value) ==
    IF \E i \in 1..Len(d) : d[i][1] = key
    THEN [i \in 1..Len(d) |-> IF d[i][1] = key THEN <<key, value>> ELSE d[i]]
    ELSE Append(d, <<key, value>>)

\* self.styles[style_name] = css_string
set_style_result(stys, style_name, css_properties) ==
    DictSet(stys, style_name, CssString(css_properties))

\* bool(x) of an optional string: None and "" are falsy
Truthy(x) == x # None /\ x[1] # <<>>

RECURSIVE StyleSection(_)
\* the loop over self.styles.items()
StyleSection(stys) ==
    IF stys = <<>> THEN <<>>
    ELSE <<":", ":">> \o Head(stys)[1] \o <<" ">> \o Head(stys)[2] \o <<NL>>
         \o StyleSection(Tail(stys))

\* a cue whose text is never wrapped in its class span
CueText_Unstyled(i, caption) ==
    IntToStr(i) \o <<NL>>
    \o caption.start \o Arrow \o caption.end \o <<NL>>
    \o caption.text \o <<NL>>
    \o <<NL>>

\* the text appended for caption number i
CueText(i, caption) ==
    IntToStr(i) \o <<NL>>
    \o caption.start \o Arrow \o caption.end \o <<NL>>
    \o (IF Truthy(caption.style)
        THEN ClassOpen \o caption.style[1] \o <<">">> \o caption.text
             \o ClassClose \o <<NL>>
        ELSE caption.text \o <<NL>>)
    \o <<NL>>

\* the number enumerate(self.captions, 1) gives the first caption
EnumerateStart == 1

RECURSIVE CueSection(_, _)
\* the loop over enumerate(self.captions, 1), from number i on
CueSection(caps, i) ==
    IF caps = <<>> THEN <<>>
    ELSE CueText(i, Head(caps)) \o CueSection(Tail(caps), i + 1)

\* a header without its blank line
Header_NoBlankLine == WEBVTT \o <<NL>>

\* the header line and its blank line
Header == WEBVTT \o <<NL, NL>>

\* the STYLE block written after the cues
VttContent_StyleAfterCues(caps, stys) ==
    WEBVTT \o <<NL, NL>>
    \o CueSection(caps, EnumerateStart)
    \o (IF stys # <<>> THEN STYLE \o <<NL>> \o StyleSection(stys) \o <<NL>>
        ELSE <<>>)

\* generate_vtt_content(), as a function of the document
VttContent(caps, stys) ==
    Header
    \o (IF stys # <<>> THEN STYLE \o <<NL>> \o StyleSection(stys) \o <<NL>>
        ELSE <<>>)
    \o CueSection(caps, EnumerateStart)

-----------------------------------------------------------------------------
(* Python int(str) *)

RECURSIVE LStrip(_)
\* leading blanks removed
LStrip(s) ==
    IF s # <<>> /\ Head(s) = " " THEN LStrip(Tail(s)) ELSE s

RECURSIVE RStrip(_)
\* trailing blanks removed
RStrip(s) ==
    IF s # <<>> /\ s[Len(s)] = " " THEN RStrip(SubSeq(s, 1, Len(s) - 1)) ELSE s

Strip(s) == RStrip(LStrip(s))

\* the text of an int literal after its sign: digits, single underscores
\* allowed between two digits
IsDigitBody(b) ==
    /\ b # <<>>
    /\ \A i \in 1..Len(b) : b[i] \in DigitChars \/ b[i] = "_"
    /\ b[1] # "_" /\ b[Len(b)] # "_"
    /\ \A i \in 1..(Len(b) - 1) : ~(b[i] = "_" /\ b[i + 1] = "_")

\* the literal without blanks and sign
IntBody(s) ==
    LET t == Strip(s)
    IN  IF t # <<>> /\ t[1] \in {"+", "-"} THEN Tail(t) ELSE t

\* int(s) succeeds (otherwise it raises ValueError)
IsIntLiteral(s) == IsDigitBody(IntBody(s))

\* int(s) of a valid literal: its sign and its decimal digits
PyInt(s) ==
    LET t == Strip(s)
    IN  [neg |-> t[1] = "-", digits |-> SelectSeq(IntBody(s), LAMBDA c : c # "_")]

\* a Python int given in the code as a number
PyIntOf(n) == [neg |-> FALSE, digits |-> IntToStr(n)]

-----------------------------------------------------------------------------
(* datetime.timedelta *)

\* timedelta.max.days: the constructor raises OverflowError beyond it
TimedeltaMaxDays == 999999999

\* day counts are followed exactly below SatDays; SatDays stands for
\* "SatDays or more"
SatDays == TimedeltaMaxDays + 10

MsPerDay == 86400 * 1000

Min(a, b) == IF a < b THEN a ELSE b
Max(a, b) == IF a > b THEN a ELSE b

\* a + b kept within -SatDays..SatDays
SatAdd(a, b) == Max(-SatDays, Min(SatDays, a + b))

\* the number written by at most nine digits
SmallNumber(digits) ==
    LET n == Len(digits)
        D(i) == IF i <= n THEN DigitVal(digits[i]) * 10 ^ (n - i) ELSE 0
    IN  D(1) + D(2) + D(3) + D(4) + D(5) + D(6) + D(7) + D(8) + D(9)

RECURSIVE LongDiv(_, _)
\* the decimal number `digits` divided by perDay: quotient (whole days,
\* saturating at SatDays) and remainder; up to nine digits at once, longer
\* numbers digit by digit
LongDiv(digits, perDay) ==
    IF Len(digits) <= 9
    THEN [q |-> SmallNumber(digits) \div perDay, r |-> SmallNumber(digits) % perDay]
    ELSE LET p == LongDiv(SubSeq(digits, 1, Len(digits) - 1), perDay)
             cur == 10 * p.r + DigitVal(digits[Len(digits)])
         IN  [q |-> IF p.q > SatDays \div 10 THEN SatDays
                    ELSE Min(10 * p.q + cur \div perDay, SatDays),
              r |-> cur % perDay]

\* one keyword argument of timedelta(...): n units of msPerUnit milliseconds,
\* as signed whole days and signed milliseconds within the day
Component(n, msPerUnit) ==
    LET d == LongDiv(n.digits, MsPerDay \div msPerUnit)
        sign == IF n.neg THEN -1 ELSE 1
    IN  [days |-> sign * d.q, ms |-> sign * d.r * msPerUnit]

\* timedelta(hours=, minutes=, seconds=, milliseconds=) of Python ints:
\* normalised to days, 0 <= seconds < 86400, 0 <= microseconds < 10^6.
\* Exact unless one argument alone reaches SatDays days while another has
\* the opposite sign.
timedelta(hours, minutes, seconds, milliseconds) ==
    LET h == Component(hours, 3600 * 1000)
        m == Component(minutes, 60 * 1000)
        s == Component(seconds, 1000)
        l == Component(milliseconds, 1)
        ms == h.ms + m.ms + s.ms + l.ms
        days == SatAdd(SatAdd(SatAdd(SatAdd(h.days, m.days), s.days), l.days),
                       ms \div MsPerDay)
        inDay == ms % MsPerDay
    IN  IF days > TimedeltaMaxDays \/ days < -TimedeltaMaxDays
        THEN Raise("OverflowError")
        ELSE RetTd([days |-> days,
                    seconds |-> inDay \div 1000,
                    microseconds |-> (inDay % 1000) * 1000])

\* timedelta(seconds=1)
OneSecond == [days |-> 0, seconds |-> 1, microseconds |-> 0]

-----------------------------------------------------------------------------
(* VTTGenerator._parse_timestamp *)

\* the result of the call: RetTd(td), or Raise(exc) for an exception the
\* except clause (ValueError, IndexError) does not catch
_parse_timestamp(timestamp) ==
    LET ts == Replace(timestamp, ",", ".")
        parts == Split(ts, ":")
    IN  IF Len(parts) = 3
        THEN LET seconds_parts == Split(parts[3], ".")
             IN  IF /\ IsIntLiteral(seconds_parts[1])
                    /\ (Len(seconds_parts) > 1 => IsIntLiteral(seconds_parts[2]))
                    /\ IsIntLiteral(parts[1])
                    /\ IsIntLiteral(parts[2])
                 THEN timedelta(PyInt(parts[1]), PyInt(parts[2]),
                                PyInt(seconds_parts[1]),
                                IF Len(seconds_parts) > 1
                                THEN PyInt(seconds_parts[2]) ELSE PyIntOf(0))
                 ELSE RetTd(OneSecond)    \* ValueError caught
        ELSE timedelta(PyIntOf(0), PyIntOf(0), PyIntOf(1), PyIntOf(0))

-----------------------------------------------------------------------------
(* VTTGenerator._format_timestamp *)

SecondsPerDay == 86400

\* significand bits of the float td.total_seconds() returns
FloatMantissaBits == 53

\* the first power of two (in seconds) at which the float nearest to a
\* duration with microseconds can be a whole second above it
FirstInexactExp == 34

\* timedelta.max is below 2^47 seconds
LastExp == 46

\* 2^k seconds as whole days and seconds within the day, for k <= 47.
\* A day is 2^7 * 675 seconds; above 2^30 the division by 675 is done on
\* 2^(k-7) = 2^(k-27) * 2^20 in two parts, to stay within machine integers.
Pow2Seconds(k) ==
    IF k <= 30
    THEN [days |-> (2 ^ k) \div SecondsPerDay, seconds |-> (2 ^ k) % SecondsPerDay]
    ELSE LET unit == 2 ^ 7
             perDay == SecondsPerDay \div unit
             hi == 2 ^ (k - 27)
             q == (2 ^ 20) \div perDay
             r == (2 ^ 20) % perDay
         IN  [days |-> hi * q + (hi * r) \div perDay,
              seconds |-> ((hi * r) % perDay) * unit]

\* td >= p, both as days and seconds within the day
AtLeast(td, p) ==
    td.days > p.days \/ (td.days = p.days /\ td.seconds >= p.seconds)

\* td.total_seconds() is (whole microseconds) / 10^6 rounded to the nearest
\* float; for 2^k <= seconds < 2^(k+1) the floats are 2^(k-52) apart, and the
\* quotient rounds up to the next whole second when the microseconds missing
\* to it are less than half of that
RoundsUpToNextSecond(td) ==
    \E k \in FirstInexactExp..LastExp :
        /\ AtLeast(td, Pow2Seconds(k))
        /\ ~AtLeast(td, Pow2Seconds(k + 1))
        /\ 1000000 - td.microseconds
               <= (1000000 - 1) \div (2 ^ (FloatMantissaBits - k))

PlusOneSecond(p) ==
    IF p.seconds + 1 = SecondsPerDay
    THEN [days |-> p.days + 1, seconds |-> 0]
    ELSE [days |-> p.days, seconds |-> p.seconds + 1]

\* int(td.total_seconds()), as days and seconds within the day: the float is
\* truncated towards zero.  Negative durations are followed below 2^34 s.
TotalSecondsInt(td) ==
    LET whole == [days |-> td.days, seconds |-> td.seconds]
    IN  IF td.days >= 0
        THEN IF RoundsUpToNextSecond(td) THEN PlusOneSecond(whole) ELSE whole
        ELSE IF td.microseconds > 0 THEN PlusOneSecond(whole) ELSE whole

\* f"{n:0{width}d}"
FormatD(n, width) ==
    IF n < 0 THEN <<"-">> \o ZeroPad(IntToStr(-n), width - 1)
    ELSE ZeroPad(IntToStr(n), width)

\* the width of the hours, minutes and seconds fields
HmsWidth == 2

\* the width of the milliseconds field
MsWidth == 3

_format_timestamp(td) ==
    LET total_seconds == TotalSecondsInt(td)
        hours == total_seconds.days * 24 + total_seconds.seconds \div 3600
        minutes == (total_seconds.seconds % 3600) \div 60
        seconds == total_seconds.seconds % 60
        milliseconds == td.microseconds \div 1000
    IN  FormatD(hours, HmsWidth) \o <<":">> \o FormatD(minutes, HmsWidth)
        \o <<":">> \o FormatD(seconds, HmsWidth) \o <<".">>
        \o FormatD(milliseconds, MsWidth)

-----------------------------------------------------------------------------
(* Inputs of the document operations *)

\* "00:00:0s.000"
Stamp(s) ==
    <<"0", "0", ":", "0", "0", ":", "0", Digits[s + 1], ".", "0", "0", "0">>

Hello == <<"H", "e", "l", "l", "o">>
World == <<"w", "o", "r", "l", "d">>
Highlight == <<"h", "i", "g", "h", "l", "i", "g", "h", "t">>
Normal == <<"n", "o", "r", "m", "a", "l">>
Color == <<"c", "o", "l", "o", "r">>
FontWeight == <<"f", "o", "n", "t", "-", "w", "e", "i", "g", "h", "t">>
Gold == <<"#", "F", "F", "D", "7", "0", "0">>
White == <<"#", "F", "F", "F", "F", "F", "F">>
Bold == <<"b", "o", "l", "d">>

\* arguments of add_caption: in order, back to back, overlapping, of zero
\* length and of negative length; with and without a style
CaptionArgs ==
    { Caption(Stamp(0), Stamp(2), Hello, None),
      Caption(Stamp(2), Stamp(5), World, None),
      Caption(Stamp(1), Stamp(4), Hello, Some(Highlight)),
      Caption(Stamp(5), Stamp(8), World, Some(Normal)),
      Caption(Stamp(5), Stamp(5), Hello, None),
      Caption(Stamp(8), Stamp(5), World, Some(Highlight)) }

\* arguments of set_style: a name and an ordered mapping property -> value
StyleArgs ==
    { <<Highlight, <<<<Color, Gold>>>>>>,
      <<Highlight, <<<<Color, Gold>>, <<FontWeight, Bold>>>>>>,
      <<Normal, <<<<Color, White>>>>>>,
      <<Normal, <<>>>> }

-----------------------------------------------------------------------------
(* The document operations *)

Init ==
    /\ VTTGenerator_init
    /\ NoOthers
    /\ calls = <<>>
    /\ op = "init"
    /\ arg = None
    /\ ret = RetNone

add_caption(start_time, end_time, text, style) ==
    /\ Len(calls) < MaxCalls
    /\ captions' = add_caption_result(captions, start_time, end_time, text, style)
    /\ calls' = Append(calls, [op |-> "add_caption",
                               arg |-> Caption(start_time, end_time, text, style)])
    /\ op' = "add_caption"
    /\ arg' = Caption(start_time, end_time, text, style)
    /\ ret' = RetNone
    /\ UNCHANGED styles
    /\ UNCHANGED others

set_style(style_name, css_properties) ==
    /\ Len(calls) < MaxCalls
    /\ styles' = set_style_result(styles, style_name, css_properties)
    /\ calls' = Append(calls, [op |-> "set_style",
                               arg |-> <<style_name, css_properties>>])
    /\ op' = "set_style"
    /\ arg' = <<style_name, css_properties>>
    /\ ret' = RetNone
    /\ UNCHANGED captions
    /\ UNCHANGED others

\* a rendering that consumes the caption list while it walks it
generate_vtt_content_drains ==
    /\ op' = "generate_vtt_content"
    /\ arg' = None
    /\ ret' = RetStr(VttContent(captions, styles))
    /\ captions' = <<>>
    /\ UNCHANGED <<styles, calls>>
    /\ UNCHANGED others

generate_vtt_content ==
    /\ op' = "generate_vtt_content"
    /\ arg' = None
    /\ ret' = RetStr(VttContent(captions, styles))
    /\ UNCHANGED <<captions, styles, calls>>
    /\ UNCHANGED others

Next ==
    \/ \E c \in CaptionArgs : add_caption(c.start, c.end, c.text, c.style)
    \/ \E s \in StyleArgs : set_style(s[1], s[2])
    \/ generate_vtt_content

Spec == Init /\ [][Next]_vars

-----------------------------------------------------------------------------
(* The timestamp conversions on their own *)

\* the most ':'-separated fields of a timestamp given to _parse_timestamp
MaxFields == 3

\* what may stand between two ':' of an input
FieldChoices ==
    { <<"0", "0">>,
      <<"5", "9">>,
      <<"0", "1", ".", "5", "0", "0">>,
      <<"0", "2", ",", "5">>,
      <<"1", ".">>,
      <<"x">>,
      <<>>,
      <<"-", "1">>,
      <<" ", "7">>,
      <<"1", "_", "0">>,
      <<"2", "4", "0", "0", "0", "0", "0", "0", "0", "0", "0">>,
      <<"b", "a", "d", "-", "t", "i", "m", "e", "s", "t", "a", "m", "p">> }

RECURSIVE StampsOfFields(_)
\* the inputs with n fields
StampsOfFields(n) ==
    IF n = 1 THEN FieldChoices
    ELSE {a \o <<":">> \o b : a \in StampsOfFields(n - 1), b \in FieldChoices}

TimestampInputs == UNION {StampsOfFields(n) : n \in 1..MaxFields}

\* non-negative durations: below and above 100 hours, and around 2^34 seconds
\* (198841 days and 6784 seconds)
DurationInputs ==
    [days : {0, 4, 198841},
     seconds : {0, 59, 3600, 6783, 6784, 14399, 14400, 86399},
     microseconds : {0, 999, 1000, 500000, 999998, 999999}]

\* a timestamp string or a timedelta is given, no call made yet
InitTimestamp ==
    /\ VTTGenerator_init
    /\ NoOthers
    /\ calls = <<>>
    /\ ret = RetNone
    /\ \/ op = "str" /\ arg \in TimestampInputs
       \/ op = "timedelta" /\ arg \in DurationInputs

parse_timestamp_call ==
    /\ op = "str"
    /\ op' = "_parse_timestamp"
    /\ ret' = _parse_timestamp(arg)
    /\ UNCHANGED <<captions, styles, calls, arg>>
    /\ UNCHANGED others

format_timestamp_call ==
    /\ op = "timedelta"
    /\ op' = "_format_timestamp"
    /\ ret' = RetStr(_format_timestamp(arg))
    /\ UNCHANGED <<captions, styles, calls, arg>>
    /\ UNCHANGED others

\* self._parse_timestamp(self._format_timestamp(td))
round_trip ==
    /\ op = "timedelta"
    /\ op' = "round_trip"
    /\ ret' = _parse_timestamp(_format_timestamp(arg))
    /\ UNCHANGED <<captions, styles, calls, arg>>
    /\ UNCHANGED others

NextTimestamp ==
    \/ parse_timestamp_call
    \/ format_timestamp_call
    \/ round_trip

SpecTimestamp == InitTimestamp /\ [][NextTimestamp]_vars

-----------------------------------------------------------------------------
(* Reading a rendered document back, line by line *)

Lines(content) == Split(content, NL)

HeaderText == <<"W", "E", "B", "V", "T", "T", "\n", "\n">>
StyleLine == <<"S", "T", "Y", "L", "E">>

HasStyleBlock(lines) == Len(lines) >= 3 /\ lines[3] = StyleLine

\* the blank line closing the STYLE block, or the header's blank line when
\* there is no block (0 when the block is never closed)
StyleEnd(lines) ==
    IF HasStyleBlock(lines)
    THEN IF \E i \in 4..Len(lines) : lines[i] = <<>>
         THEN CHOOSE i \in 4..Len(lines) :
                  lines[i] = <<>> /\ \A j \in 4..(i - 1) : lines[j] # <<>>
         ELSE 0
    ELSE 2

IsStyleEntry(line) == StartsWith(line, <<":", ":">>)

\* the name of a "::<name> {" line
StyleEntryName(line) == SubSeq(line, 3, Len(line) - 2)

\* the names in the STYLE block, in the order written
StyleEntryNames(lines) ==
    LET block == SubSeq(lines, 4, StyleEnd(lines) - 1)
        entries == SelectSeq(block, IsStyleEntry)
    IN  [i \in 1..Len(entries) |-> StyleEntryName(entries[i])]

\* the lines after the header and the STYLE block
CueLines(lines) == SubSeq(lines, StyleEnd(lines) + 1, Len(lines))

\* the text is cues of four lines (number, timing, text, blank) and nothing else
WellFormedCues(lines) ==
    LET c == CueLines(lines)
    IN  /\ Len(c) % 4 = 1
        /\ c[Len(c)] = <<>>
        /\ \A i \in 1..Len(c) : (i % 4 = 0) => c[i] = <<>>

NumCues(lines) == (Len(CueLines(lines)) - 1) \div 4

\* line j (1: number, 2: timing, 3: text) of cue k
CueLine(lines, k, j) == CueLines(lines)[4 * (k - 1) + j]

\* "<c.NAME>text</c>"
ClassSpan(name, text) ==
    <<"<", "c", ".">> \o name \o <<">">> \o text \o <<"<", "/", "c", ">">>

\* the calls of one method, in call order
CallsOf(name) == SelectSeq(calls, LAMBDA c : c.op = name)

Rendered == op = "generate_vtt_content"

-----------------------------------------------------------------------------
(* C1: whatever add_caption and set_style calls were made, the text           *)
(* generate_vtt_content returns starts with "WEBVTT\n\n", and for a document  *)
(* with no captions and no styles it is exactly "WEBVTT\n\n".                 *)
C1_StartsWithHeader ==
    Rendered =>
        /\ StartsWith(ret.val, HeaderText)
        /\ (captions = <<>> /\ styles = <<>> => ret.val = HeaderText)

\* a document with captions and styles was rendered
C1_Witness ==
    Rendered /\ Len(captions) >= 1 /\ Len(styles) >= 1 /\ Len(calls) = MaxCalls

-----------------------------------------------------------------------------
(* C2: after n add_caption calls the document holds their arguments in call   *)
(* order, unchanged, and generate_vtt_content writes exactly n cues, numbered *)
(* 1..n, the k-th with the start, end and text of the k-th call.              *)
C2_CuesInCallOrder ==
    LET added == CallsOf("add_caption")
    IN  /\ Len(captions) = Len(added)
        /\ \A k \in 1..Len(added) : captions[k] = added[k].arg
        /\ Rendered =>
             LET lines == Lines(ret.val)
             IN  /\ WellFormedCues(lines)
                 /\ NumCues(lines) = Len(added)
                 /\ \A k \in 1..Len(added) :
                      /\ CueLine(lines, k, 1) = <<Digits[k + 1]>>
                      /\ CueLine(lines, k, 2)
                           = added[k].arg.start \o <<" ", "-", "-", ">", " ">>
                             \o added[k].arg.end
                      /\ \/ CueLine(lines, k, 3) = added[k].arg.text
                    \/ /\ added[k].arg.style # None
                       /\ CueLine(lines, k, 3)
                            = ClassSpan(added[k].arg.style[1], added[k].arg.text)

\* two different captions were added, the later one first in time, and rendered
C2_Witness ==
    /\ Rendered
    /\ Len(captions) >= 2
    /\ captions[1] # captions[2]
    /\ captions[1].start = Stamp(2)
    /\ captions[2].start = Stamp(0)

-----------------------------------------------------------------------------
(* C3: generate_vtt_content is read-only and idempotent: a call leaves the    *)
(* caption list and the style map as they were, a second call right after     *)
(* the first returns the same text, and the text of any call has one cue per  *)
(* caption and one STYLE entry per style the document holds at that moment.   *)
C3_RenderReadOnlyIdempotent ==
    /\ [][op' = "generate_vtt_content" =>
            /\ captions' = captions
            /\ styles' = styles
            /\ (Rendered => ret' = ret)]_vars
    /\ [](Rendered =>
            LET lines == Lines(ret.val)
            IN  /\ WellFormedCues(lines)
                /\ NumCues(lines) = Len(captions)
                /\ \A k \in 1..Len(captions) :
                     CueLine(lines, k, 2)
                       = captions[k].start \o <<" ", "-", "-", ">", " ">>
                         \o captions[k].end
                /\ StyleEntryNames(lines)
                     = [i \in 1..Len(styles) |-> styles[i][1]])

\* a document was rendered between two mutations: it holds a caption and a
\* style, and more calls may follow
C3_Witness ==
    /\ Rendered
    /\ Len(captions) = 1
    /\ Len(styles) = 1
    /\ Len(calls) < MaxCalls

-----------------------------------------------------------------------------
(* Comparing durations *)

\* a < b for normalised timedeltas
TdLess(a, b) ==
    \/ a.days < b.days
    \/ a.days = b.days /\ a.seconds < b.seconds
    \/ a.days = b.days /\ a.seconds = b.seconds
       /\ a.microseconds < b.microseconds

\* the caption's timestamps parse and its end is later than its start
PositiveLength(caption) ==
    LET s == _parse_timestamp(caption.start)
        e == _parse_timestamp(caption.end)
    IN  s.kind = "timedelta" /\ e.kind = "timedelta" /\ TdLess(s.val, e.val)

-----------------------------------------------------------------------------
(* C4: every caption the document holds has end > start (a call with          *)
(* end <= start is rejected or its end is moved to at least start + 1ms).     *)
C4_EveryCaptionPositiveLength ==
    \A k \in 1..Len(captions) : PositiveLength(captions[k])

-----------------------------------------------------------------------------
(* C5: after any set_style calls the style map has exactly one entry per      *)
(* distinct name used, and the entry of a name is the CSS built from the      *)
(* properties of the latest set_style call with that name.                    *)
C5_StyleLastWriteWins ==
    LET set == CallsOf("set_style")
        names == {set[i].arg[1] : i \in 1..Len(set)}
        latest(name) ==
            set[CHOOSE i \in 1..Len(set) :
                    /\ set[i].arg[1] = name
                    /\ \A j \in (i + 1)..Len(set) : set[j].arg[1] # name]
    IN  /\ {styles[i][1] : i \in 1..Len(styles)} = names
        /\ Len(styles) = Cardinality(names)
        /\ \A i \in 1..Len(styles) :
             styles[i][2] = CssString(latest(styles[i][1]).arg[2])

\* a name was set twice with different properties, and another name as well
C5_Witness ==
    LET set == CallsOf("set_style")
    IN  /\ Len(set) = 3
        /\ Len(styles) = 2
        /\ \E i, j \in 1..3 :
             i < j /\ set[i].arg[1] = set[j].arg[1] /\ set[i].arg[2] # set[j].arg[2]

-----------------------------------------------------------------------------
(* C6: the text has a STYLE block exactly when a style is defined; the block  *)
(* comes right after the header and before every cue, and holds one           *)
(* "::<name> {...}" entry per defined style, in the order the names were      *)
(* first set.                                                                 *)
RECURSIVE FirstUses(_)
\* the names of the set_style calls, each at its first use only
FirstUses(set) ==
    IF set = <<>> THEN <<>>
    ELSE LET before == FirstUses(SubSeq(set, 1, Len(set) - 1))
             name == set[Len(set)].arg[1]
         IN  IF \E i \in 1..Len(before) : before[i] = name
             THEN before ELSE Append(before, name)

C6_StyleBlock ==
    Rendered =>
        LET lines == Lines(ret.val)
            set == CallsOf("set_style")
        IN  /\ HasStyleBlock(lines) <=> set # <<>>
            /\ \A i \in 1..Len(lines) :
                 /\ lines[i] = StyleLine => i = 3
                 /\ IsStyleEntry(lines[i]) =>
                      HasStyleBlock(lines) /\ 3 < i /\ i < StyleEnd(lines)
            /\ StyleEntryNames(lines) = FirstUses(set)
            /\ \A i \in 1..Len(styles) :
                 \E j \in 4..Len(lines) :
                   /\ lines[j] = <<":", ":">> \o styles[i][1] \o <<" ", "{">>
                   /\ j < StyleEnd(lines)
            /\ WellFormedCues(lines)
            /\ NumCues(lines) = Len(captions)

\* two styles and a caption were rendered, the styles set in the order
\* normal, highlight
C6_Witness ==
    /\ Rendered
    /\ Len(styles) = 2
    /\ styles[1][1] = Normal
    /\ Len(captions) = 1

-----------------------------------------------------------------------------
(* C7: the text line of a cue is "<c.NAME>text</c>" exactly when the caption  *)
(* was added with a style NAME, and the bare text when it was added without.  *)
C7_ClassSpanIffStyled ==
    Rendered =>
        LET lines == Lines(ret.val)
            added == CallsOf("add_caption")
        IN  /\ NumCues(lines) = Len(added)
            /\ \A k \in 1..Len(added) :
                 CueLine(lines, k, 3)
                   = IF added[k].arg.style # None
                     THEN ClassSpan(added[k].arg.style[1], added[k].arg.text)
                     ELSE added[k].arg.text

\* a styled caption and an unstyled one were rendered; the style used was
\* never defined by set_style
C7_Witness ==
    /\ Rendered
    /\ \E k \in 1..Len(captions) : captions[k].style = Some(Highlight)
    /\ \E k \in 1..Len(captions) : captions[k].style = None
    /\ styles = <<>>

-----------------------------------------------------------------------------
(* C8: _parse_timestamp raises for no input string, and a string that does    *)
(* not split on ':' into exactly 3 fields, or whose hour, minute, second or   *)
(* millisecond component is not an integer, gives exactly 1 second.           *)

\* the string has other than 3 fields, or a component that int() rejects
Malformed(timestamp) ==
    LET parts == Split(Replace(timestamp, ",", "."), ":")
    IN  \/ Len(parts) # 3
        \/ ~IsIntLiteral(parts[1])
        \/ ~IsIntLiteral(parts[2])
        \/ LET sec == Split(parts[3], ".")
           IN  \/ ~IsIntLiteral(sec[1])
               \/ Len(sec) > 1 /\ ~IsIntLiteral(sec[2])

C8_ParseNeverRaises ==
    op = "_parse_timestamp" =>
        /\ ret.kind = "timedelta"
        /\ (Malformed(arg) => ret.val = OneSecond)

-----------------------------------------------------------------------------
(* C9: for every non-negative duration d, parsing the formatted d gives a     *)
(* duration less than 1 millisecond away from d, and d itself when d is a     *)
(* whole number of milliseconds.                                              *)

\* |a - b| < 1 ms, for normalised timedeltas
WithinOneMs(a, b) ==
    /\ a.days - b.days \in {-1, 0, 1}
    /\ LET secs == (a.days - b.days) * SecondsPerDay + a.seconds - b.seconds
       IN  /\ secs \in {-1, 0, 1}
           /\ LET us == secs * 1000000 + a.microseconds - b.microseconds
              IN  -1000 < us /\ us < 1000

C9_RoundTripWithinOneMs ==
    op = "round_trip" =>
        /\ ret.kind = "timedelta"
        /\ WithinOneMs(ret.val, arg)
        /\ (arg.microseconds % 1000 = 0 => ret.val = arg)

-----------------------------------------------------------------------------
(* C10: for every non-negative duration _format_timestamp gives HH:MM:SS.mmm, *)
(* two digits of hours, minutes and seconds and three of milliseconds, with   *)
(* minutes and seconds in 00..59, and the fields add up to the duration       *)
(* truncated to whole milliseconds.                                           *)

\* the number written by the digits s[from..to]
RECURSIVE Number(_, _, _)
Number(s, from, to) ==
    IF to < from THEN 0
    ELSE 10 * Number(s, from, to - 1) + DigitVal(s[to])

C10_FormatTwoDigitFields ==
    op = "_format_timestamp" =>
        LET s == ret.val
        IN  /\ Len(s) = 12
            /\ s[3] = ":" /\ s[6] = ":" /\ s[9] = "."
            /\ \A i \in {1, 2, 4, 5, 7, 8, 10, 11, 12} : s[i] \in DigitChars
            /\ LET hours == Number(s, 1, 2)
                   minutes == Number(s, 4, 5)
                   seconds == Number(s, 7, 8)
                   milliseconds == Number(s, 10, 12)
               IN  /\ minutes <= 59
                   /\ seconds <= 59
                   /\ hours \div 24 = arg.days
                   /\ (hours % 24) * 3600 + minutes * 60 + seconds = arg.seconds
                   /\ milliseconds = arg.microseconds \div 1000

-----------------------------------------------------------------------------
(* timedelta arithmetic *)

RetList(l) == [kind |-> "list", val |-> l]

MicrosPerSecond == 1000000

\* days, seconds and microseconds of any sign brought to
\* 0 <= seconds < 86400 and 0 <= microseconds < 10^6
TdNormalize(days, seconds, microseconds) ==
    LET s == seconds + microseconds \div MicrosPerSecond
    IN  [days |-> days + s \div SecondsPerDay,
         seconds |-> s % SecondsPerDay,
         microseconds |-> microseconds % MicrosPerSecond]

\* a new timedelta is made only within -timedelta.max.days..timedelta.max.days
TdChecked(td) ==
    IF td.days > TimedeltaMaxDays \/ td.days < -TimedeltaMaxDays
    THEN Raise("OverflowError")
    ELSE RetTd(td)

\* a - b
TdSub(a, b) ==
    TdChecked(TdNormalize(a.days - b.days, a.seconds - b.seconds,
                          a.microseconds - b.microseconds))

\* a + b
TdAdd(a, b) ==
    TdChecked(TdNormalize(a.days + b.days, a.seconds + b.seconds,
                          a.microseconds + b.microseconds))

\* td * k for an int k
TdMulInt(td, k) ==
    TdChecked(TdNormalize(td.days * k, td.seconds * k, td.microseconds * k))

\* td / n for an int n > 0: the whole microseconds divided by n, rounded to
\* the nearest microsecond, a tie to the even one.  The division runs over
\* days, seconds and microseconds in turn, each remainder carried down.
TdDivInt(td, n) ==
    LET qd == td.days \div n
        s == (td.days % n) * SecondsPerDay + td.seconds
        qs == s \div n
        u == (s % n) * MicrosPerSecond + td.microseconds
        qu == u \div n
        r == u % n
        up == 2 * r > n \/ (2 * r = n /\ qu % 2 = 1)
    IN  TdChecked(TdNormalize(qd, qs, IF up THEN qu + 1 ELSE qu))

-----------------------------------------------------------------------------
(* VTTGenerator.generate_word_by_word_caption *)

Whitespace == {" ", "\t", "\n"}

RECURSIVE SplitWords(_)
\* s.split(): the runs of non-whitespace characters, in order
SplitWords(s) ==
    IF \A i \in 1..Len(s) : s[i] \in Whitespace THEN <<>>
    ELSE LET b == CHOOSE i \in 1..Len(s) :
                      s[i] \notin Whitespace /\ \A j \in 1..(i - 1) : s[j] \in Whitespace
             e == CHOOSE i \in b..Len(s) :
                      /\ \A j \in b..i : s[j] \notin Whitespace
                      /\ (i = Len(s) \/ s[i + 1] \in Whitespace)
         IN  <<SubSeq(s, b, e)>> \o SplitWords(SubSeq(s, e + 1, Len(s)))

RECURSIVE Join(_, _)
\* sep.join(strs)
Join(sep, strs) ==
    IF strs = <<>> THEN <<>>
    ELSE IF Len(strs) = 1 THEN strs[1]
    ELSE strs[1] \o sep \o Join(sep, Tail(strs))

\* F(x) with x evaluated once, for values that are passed on from one
\* round of a loop to the next
With(x, F(_)) == CHOOSE r \in {F(v) : v \in {x}} : TRUE

\* self._parse_timestamp(end) - self._parse_timestamp(start)
_time_difference(end, start) ==
    With(_parse_timestamp(end), LAMBDA e :
    IF e.kind = "raise" THEN e
    ELSE With(_parse_timestamp(start), LAMBDA s :
    IF s.kind = "raise" THEN s
    ELSE TdSub(e.val, s.val)))

RECURSIVE WordChunks(_, _, _, _, _)
\* the loop over range(i, total_words, words_per_chunk), words_per_chunk > 0
WordChunks(words, i, current_time, word_duration, words_per_chunk) ==
    IF i >= Len(words) THEN RetList(<<>>)
    ELSE With(TdMulInt(word_duration, words_per_chunk), LAMBDA step :
         IF step.kind = "raise" THEN step
         ELSE With(TdAdd(current_time, step.val), LAMBDA chunk_end :
         IF chunk_end.kind = "raise" THEN chunk_end
         ELSE With(WordChunks(words, i + words_per_chunk, chunk_end.val,
                              word_duration, words_per_chunk), LAMBDA rest :
         IF rest.kind = "raise" THEN rest
         ELSE RetList(<<[start |-> _format_timestamp(current_time),
                         end |-> _format_timestamp(chunk_end.val),
                         text |-> Join(<<" ">>,
                                       SubSeq(words, i + 1,
                                              Min(i + words_per_chunk,
                                                  Len(words))))]>>
                      \o rest.val))))

\* the result of the call: RetList(chunks), or Raise(exc)
generate_word_by_word_caption(start_time, end_time, text, words_per_chunk) ==
    With(SplitWords(text), LAMBDA words :
    With(_time_difference(end_time, start_time), LAMBDA duration :
    IF duration.kind = "raise" THEN duration
    ELSE IF Len(words) = 0 THEN Raise("ZeroDivisionError")
    ELSE With(TdDivInt(duration.val, Len(words)), LAMBDA word_duration :
    IF word_duration.kind = "raise" THEN word_duration
    ELSE With(_parse_timestamp(start_time), LAMBDA current_time :
    IF current_time.kind = "raise" THEN current_time
    ELSE IF words_per_chunk = 0 THEN Raise("ValueError")
    ELSE IF words_per_chunk < 0 THEN RetList(<<>>)
    ELSE WordChunks(words, 0, current_time.val, word_duration.val,
                    words_per_chunk)))))

-----------------------------------------------------------------------------
(* Word-by-word timing on its own *)

\* "00:00:SS.000"
StampSeconds(s) ==
    <<"0", "0", ":", "0", "0", ":">> \o ZeroPad(IntToStr(s), 2)
    \o <<".", "0", "0", "0">>

\* texts of five, three, two and one word, with and without surplus
\* whitespace, and texts without a word
WordTexts ==
    { <<"a", " ", "b", " ", "c", " ", "d", " ", "e">>,
      <<"a", " ", "b", " ", "c">>,
      <<" ", "H", "e", "l", "l", "o", " ", " ", "w", "o", "r", "l", "d", "\n">>,
      <<"a">>,
      <<>>,
      <<" ", "\t", " ">> }

\* start and end in either order, equal, and 10 s, 5 s, 2 s and 1 s apart;
\* words_per_chunk of one word, two words and zero
WordInputs ==
    [start_time : {StampSeconds(0), StampSeconds(5), StampSeconds(10)},
     end_time : {StampSeconds(0), StampSeconds(5), StampSeconds(7),
                 StampSeconds(10), StampSeconds(11)},
     text : WordTexts,
     words_per_chunk : {0, 1, 2}]

InitWords ==
    /\ VTTGenerator_init
    /\ NoOthers
    /\ calls = <<>>
    /\ ret = RetNone
    /\ op = "args"
    /\ arg \in WordInputs

generate_word_by_word_caption_call ==
    /\ op = "args"
    /\ op' = "generate_word_by_word_caption"
    /\ ret' = generate_word_by_word_caption(arg.start_time, arg.end_time,
                                            arg.text, arg.words_per_chunk)
    /\ UNCHANGED <<captions, styles, calls, arg>>
    /\ UNCHANGED others

NextWords == generate_word_by_word_caption_call

SpecWords == InitWords /\ [][NextWords]_vars

-----------------------------------------------------------------------------
(* Reading chunks and texts back *)

\* the milliseconds a timestamp "H..H:MM:SS.mmm" of digits stands for
ReadMs(stamp) ==
    LET dot == CHOOSE i \in 1..Len(stamp) : stamp[i] = "."
        c2 == dot - 3
        c1 == c2 - 3
    IN  ((Number(stamp, 1, c1 - 1) * 60 + Number(stamp, c1 + 1, c2 - 1)) * 60
         + Number(stamp, c2 + 1, dot - 1)) * 1000
        + Number(stamp, dot + 1, Len(stamp))

\* the positions at which a word of the text begins
WordStarts(text) ==
    {i \in 1..Len(text) :
        text[i] \notin Whitespace /\ (i = 1 \/ text[i - 1] \in Whitespace)}

\* the word of the text that begins at position i
WordFrom(text, i) ==
    LET e == CHOOSE j \in i..Len(text) :
                 /\ \A m \in i..j : text[m] \notin Whitespace
                 /\ (j = Len(text) \/ text[j + 1] \in Whitespace)
    IN  SubSeq(text, i, e)

\* the k-th word of the text
WordAt(text, k) ==
    WordFrom(text, CHOOSE i \in WordStarts(text) :
                       Cardinality({j \in WordStarts(text) : j < i}) = k - 1)

WordsDone == op = "generate_word_by_word_caption"

-----------------------------------------------------------------------------
(* C11 -- generate_word_by_word_caption(start, end, text, 1) with end > start
   and n >= 1 words returns exactly n chunks, one word each in the original
   order; the first chunk starts at start, each chunk starts where the one
   before it ends, every chunk spans (end - start) / n, and the last chunk
   ends at end. *)
C11_WordByWordUniform ==
    (/\ WordsDone
     /\ arg.words_per_chunk = 1
     /\ ReadMs(arg.end_time) > ReadMs(arg.start_time)
     /\ WordStarts(arg.text) # {})
    => LET n == Cardinality(WordStarts(arg.text))
           span == ReadMs(arg.end_time) - ReadMs(arg.start_time)
       IN  /\ ret.kind = "list"
           /\ Len(ret.val) = n
           /\ \A k \in 1..n : ret.val[k].text = WordAt(arg.text, k)
           /\ ReadMs(ret.val[1].start) = ReadMs(arg.start_time)
           /\ \A k \in 1..(n - 1) : ret.val[k + 1].start = ret.val[k].end
           /\ \A k \in 1..n :
                  (ReadMs(ret.val[k].end) - ReadMs(ret.val[k].start)) * n = span
           /\ ReadMs(ret.val[n].end) = ReadMs(arg.end_time)

-----------------------------------------------------------------------------
(* C12 -- generate_word_by_word_caption called with a text that contains no
   word (empty or whitespace only) returns an empty list of chunks and
   raises no division error. *)
C12_NoWordsNoChunks ==
    (WordsDone /\ WordStarts(arg.text) = {}) => ret = RetList(<<>>)

-----------------------------------------------------------------------------
(* C13 -- generate_word_by_word_caption called with end <= start (a duration
   of zero or less) and any text does not raise and produces no chunks. *)
C13_NoDurationNoChunks ==
    (/\ WordsDone
     /\ arg.words_per_chunk >= 1
     /\ ReadMs(arg.end_time) <= ReadMs(arg.start_time))
    => ret = RetList(<<>>)

-----------------------------------------------------------------------------
(* Natural numbers beyond machine integers: sequences of limbs, the least
   significant first, used for the significands of Python floats *)

LimbBits == 15
LimbBase == 2 ^ LimbBits

\* without leading (most significant) zero limbs
BigNorm(a) ==
    LET used == {i \in 1..Len(a) : a[i] # 0}
    IN  IF used = {} THEN <<>>
        ELSE SubSeq(a, 1, CHOOSE i \in used : \A j \in used : j <= i)

RECURSIVE BigOfNat(_)
BigOfNat(n) ==
    IF n = 0 THEN <<>> ELSE <<n % LimbBase>> \o BigOfNat(n \div LimbBase)

RECURSIVE BigToNat(_)
\* the value of a number below 2^31
BigToNat(a) ==
    IF a = <<>> THEN 0 ELSE a[1] + LimbBase * BigToNat(Tail(a))

RECURSIVE BigMulCarry(_, _, _)
\* a * k + carry, for 0 <= k < 2^15
BigMulCarry(a, k, carry) ==
    IF a = <<>> THEN BigOfNat(carry)
    ELSE LET t == a[1] * k + carry
         IN  <<t % LimbBase>> \o BigMulCarry(Tail(a), k, t \div LimbBase)

BigMulSmall(a, k) == BigNorm(BigMulCarry(a, k, 0))

\* a + k for a small k >= 0
BigAddSmall(a, k) == BigNorm(BigMulCarry(a, 1, k))

RECURSIVE BigDivRem(_, _)
\* quotient (limbs) and remainder of a by k, for 0 < k < 2^15
BigDivRem(a, k) ==
    IF a = <<>> THEN [q |-> <<>>, r |-> 0]
    ELSE LET hi == BigDivRem(Tail(a), k)
             cur == hi.r * LimbBase + a[1]
         IN  [q |-> <<cur \div k>> \o hi.q, r |-> cur % k]

RECURSIVE BigSubBorrow(_, _, _)
\* a - b - borrow for a >= b + borrow
BigSubBorrow(a, b, borrow) ==
    IF a = <<>> THEN <<>>
    ELSE LET bl == IF b = <<>> THEN 0 ELSE b[1]
             t == a[1] - bl - borrow
         IN  <<t % LimbBase>>
             \o BigSubBorrow(Tail(a), IF b = <<>> THEN <<>> ELSE Tail(b),
                             IF t < 0 THEN 1 ELSE 0)

BigSub(a, b) == BigNorm(BigSubBorrow(a, b, 0))

\* the number of binary digits of a
BigBitLen(a) ==
    LET n == BigNorm(a)
    IN  IF n = <<>> THEN 0
        ELSE (Len(n) - 1) * LimbBits
             + (CHOOSE w \in 1..LimbBits :
                    2 ^ (w - 1) <= n[Len(n)] /\ n[Len(n)] < 2 ^ w)

\* binary digit i of a, digit 0 the least significant
BigBit(a, i) ==
    IF i \div LimbBits + 1 > Len(a) THEN 0
    ELSE (a[i \div LimbBits + 1] \div 2 ^ (i % LimbBits)) % 2

\* some binary digit of a below digit i is 1
BigLowBitsSet(a, i) ==
    \E j \in 0..(i - 1) : BigBit(a, j) = 1

\* a * 2^s
BigShl(a, s) ==
    IF BigNorm(a) = <<>> THEN <<>>
    ELSE [i \in 1..(s \div LimbBits) |-> 0]
         \o BigMulSmall(a, 2 ^ (s % LimbBits))

\* a \div 2^s
BigShr(a, s) ==
    LET whole == s \div LimbBits
        rest == IF whole >= Len(a) THEN <<>> ELSE SubSeq(a, whole + 1, Len(a))
    IN  BigNorm(BigDivRem(rest, 2 ^ (s % LimbBits)).q)

\* a mod 2^s
BigLow(a, s) ==
    BigNorm([i \in 1..Min(Len(a), s \div LimbBits + 1) |->
                IF i <= s \div LimbBits THEN a[i]
                ELSE a[i] % 2 ^ (s % LimbBits)])

\* a < b
BigLess(a, b) ==
    LET x == BigNorm(a)
        y == BigNorm(b)
    IN  \/ Len(x) < Len(y)
        \/ /\ Len(x) = Len(y)
           /\ \E i \in 1..Len(x) :
                  x[i] < y[i] /\ \A j \in (i + 1)..Len(x) : x[j] = y[j]

RECURSIVE BigAddCarry(_, _, _)
BigAddCarry(a, b, carry) ==
    IF a = <<>> /\ b = <<>> THEN BigOfNat(carry)
    ELSE LET t == (IF a = <<>> THEN 0 ELSE a[1]) + (IF b = <<>> THEN 0 ELSE b[1])
                  + carry
         IN  <<t % LimbBase>>
             \o BigAddCarry(IF a = <<>> THEN <<>> ELSE Tail(a),
                            IF b = <<>> THEN <<>> ELSE Tail(b), t \div LimbBase)

BigAdd(a, b) == BigNorm(BigAddCarry(a, b, 0))

-----------------------------------------------------------------------------
(* Python float: IEEE 754 binary64, away from overflow and underflow.
   A float is its sign, its significand m (53 binary digits, or <<>> for
   zero) and its exponent e: the value is m * 2^e. *)

FloatPrecision == 53

\* the float nearest to n * 2^e, a tie to the even significand
FloatRound(neg, n, e) ==
    With(BigBitLen(n) - FloatPrecision, LAMBDA s :
    IF s = -FloatPrecision THEN [neg |-> neg, m |-> <<>>, e |-> 0]
    ELSE IF s <= 0 THEN [neg |-> neg, m |-> BigShl(n, -s), e |-> e + s]
    ELSE With(BigShr(n, s), LAMBDA q :
         With(IF /\ BigBit(n, s - 1) = 1
                 /\ (BigLowBitsSet(n, s - 1) \/ BigBit(q, 0) = 1)
              THEN BigAddSmall(q, 1) ELSE q, LAMBDA r :
         IF BigBitLen(r) > FloatPrecision
         THEN [neg |-> neg, m |-> BigShr(r, 1), e |-> e + s + 1]
         ELSE [neg |-> neg, m |-> r, e |-> e + s])))

Abs(k) == IF k < 0 THEN -k ELSE k

\* float(k) for an int k
FloatOfInt(k) == FloatRound(k < 0, BigOfNat(Abs(k)), 0)

\* binary digits of the quotient kept beyond the significand before rounding
GuardBits == 30

\* x / k for an int k # 0 below 2^15 in magnitude: the quotient of the
\* significand with GuardBits more digits, and one more digit that is 1 when
\* the division left a remainder, rounded once
FloatDivInt(x, k) ==
    With(BigDivRem(BigShl(x.m, GuardBits), Abs(k)), LAMBDA d :
    FloatRound(x.neg # (k < 0),
               BigAddSmall(BigShl(BigNorm(d.q), 1), IF d.r # 0 THEN 1 ELSE 0),
               x.e - GuardBits - 1))

\* k * x for an int k below 2^15 in magnitude
FloatMulInt(k, x) ==
    FloatRound(x.neg # (k < 0), BigMulSmall(x.m, Abs(k)), x.e)

\* the float nearest to a / b, as the literal a/b written in decimal
Float(a, b) == FloatDivInt(FloatOfInt(a), b)

FloatIsZero(x) == x.m = <<>>

\* |a| < |b|
FloatMagLess(a, b) ==
    IF FloatIsZero(b) THEN FALSE
    ELSE IF FloatIsZero(a) THEN TRUE
    ELSE a.e < b.e \/ (a.e = b.e /\ BigLess(a.m, b.m))

\* a < b
FloatLess(a, b) ==
    LET sa == IF FloatIsZero(a) THEN 0 ELSE IF a.neg THEN -1 ELSE 1
        sb == IF FloatIsZero(b) THEN 0 ELSE IF b.neg THEN -1 ELSE 1
    IN  IF sa # sb THEN sa < sb
        ELSE IF sa = 1 THEN FloatMagLess(a, b)
        ELSE IF sa = -1 THEN FloatMagLess(b, a)
        ELSE FALSE

\* min(a, b): the first argument unless the second is smaller
PyMin(a, b) == IF FloatLess(b, a) THEN b ELSE a

\* the whole part of |x|, below 2^31
FloatIntPart(x) ==
    IF FloatIsZero(x) THEN 0
    ELSE IF x.e >= 0 THEN BigToNat(BigShl(x.m, x.e))
    ELSE BigToNat(BigShr(x.m, -x.e))

\* the digits of |x| after the binary point: the fraction is
\* FloatFracBits(x) * 2^FloatFracExp(x)
FloatFracBits(x) ==
    IF FloatIsZero(x) \/ x.e >= 0 THEN <<>> ELSE BigLow(x.m, -x.e)

FloatFracExp(x) == IF FloatIsZero(x) \/ x.e >= 0 THEN 0 ELSE x.e

\* int(x): towards zero
FloatToInt(x) == IF x.neg THEN -FloatIntPart(x) ELSE FloatIntPart(x)

\* math.floor(x)
FloatFloor(x) ==
    IF x.neg /\ FloatFracBits(x) # <<>> THEN -FloatIntPart(x) - 1
    ELSE FloatToInt(x)

\* int(x // w) for an int w > 0: the floor of the exact quotient
FloatFloorDivInt(x, w) == FloatFloor(x) \div w

\* x % w for an int w > 0: the remainder of |x| is exact; for x < 0 it is
\* taken from w, and that difference is rounded to a float
FloatModInt(x, w) ==
    With(-FloatFracExp(x), LAMBDA sh :
    With(BigAdd(BigShl(BigOfNat(FloatIntPart(x) % w), sh), FloatFracBits(x)),
         LAMBDA t :
    IF t = <<>> THEN FloatRound(FALSE, <<>>, 0)
    ELSE IF ~x.neg THEN FloatRound(FALSE, t, -sh)
    ELSE FloatRound(FALSE, BigSub(BigShl(BigOfNat(w), sh), t), -sh)))

-----------------------------------------------------------------------------
(* CaptionCraftStudio._format_timestamp (seconds: float) *)

SecondsPerHour == 3600
SecondsPerMinute == 60
MillisPerSecond == 1000

App_format_timestamp(seconds) ==
    With(FloatModInt(seconds, SecondsPerMinute), LAMBDA seconds_remaining :
    LET hours == FloatFloorDivInt(seconds, SecondsPerHour)
        minutes == FloatIntPart(FloatModInt(seconds, SecondsPerHour))
                   \div SecondsPerMinute
        \* (seconds_remaining - int(seconds_remaining)) * 1000: the
        \* difference is exact, the product is rounded
        scaled == FloatRound(FALSE,
                             BigMulSmall(FloatFracBits(seconds_remaining),
                                         MillisPerSecond),
                             FloatFracExp(seconds_remaining))
        milliseconds == FloatToInt(scaled)
    IN  FormatD(hours, HmsWidth) \o <<":">> \o FormatD(minutes, HmsWidth)
        \o <<":">> \o FormatD(FloatToInt(seconds_remaining), HmsWidth)
        \o <<".">> \o FormatD(milliseconds, MsWidth))

-----------------------------------------------------------------------------
(* CaptionCraftStudio: segments and plain text to WebVTT text *)

\* s.strip(): without leading and trailing whitespace
StripWs(s) ==
    LET kept == {i \in 1..Len(s) : s[i] \notin Whitespace}
    IN  IF kept = {} THEN <<>>
        ELSE SubSeq(s, CHOOSE i \in kept : \A j \in kept : i <= j,
                       CHOOSE i \in kept : \A j \in kept : j <= i)

\* one cue: f"{number}\n", f"{start} --> {end}\n", f"{text}\n\n"
AppCue(number, start, end, text) ==
    IntToStr(number) \o <<NL>>
    \o App_format_timestamp(start) \o Arrow \o App_format_timestamp(end) \o <<NL>>
    \o text \o <<NL, NL>>

RECURSIVE WhisperCues_KeepsEmpty(_, _)
\* the loop without the test for empty text
WhisperCues_KeepsEmpty(segments, i) ==
    IF segments = <<>> THEN <<>>
    ELSE AppCue(i, Head(segments).start, Head(segments).end,
                StripWs(Head(segments).text))
         \o WhisperCues_KeepsEmpty(Tail(segments), i + 1)

RECURSIVE WhisperCues(_, _)
\* the loop over enumerate(segments, i)
WhisperCues(segments, i) ==
    IF segments = <<>> THEN <<>>
    ELSE LET segment == Head(segments)
             text == StripWs(segment.text)
         IN  (IF text # <<>>
              THEN AppCue(i, segment.start, segment.end, text) ELSE <<>>)
             \o WhisperCues(Tail(segments), i + 1)

_convert_whisper_to_vtt(segments) ==
    WEBVTT \o <<NL, NL>> \o WhisperCues(segments, EnumerateStart)

Terminators == {".", "!", "?"}

RECURSIVE ReSplit(_)
\* re.split(r'[.!?]+', s): what lies between the runs of terminators, the
\* empty strings before a leading and after a trailing run included
ReSplit(s) ==
    IF \A i \in 1..Len(s) : s[i] \notin Terminators THEN <<s>>
    ELSE LET b == CHOOSE i \in 1..Len(s) :
                      s[i] \in Terminators
                      /\ \A j \in 1..(i - 1) : s[j] \notin Terminators
             e == CHOOSE i \in b..Len(s) :
                      /\ \A j \in b..i : s[j] \in Terminators
                      /\ (i = Len(s) \/ s[i + 1] \notin Terminators)
         IN  <<SubSeq(s, 1, b - 1)>> \o ReSplit(SubSeq(s, e + 1, Len(s)))

\* a sentence of more words than this is cut into chunks
MaxSentenceWords == 15

\* the words of one chunk of a long sentence
ChunkWords == 10

\* only the first chunk of a long sentence
WordGroups_DropsRest(words) ==
    <<Join(<<" ">>, SubSeq(words, 1, Min(ChunkWords, Len(words))))>>

RECURSIVE WordGroups(_)
\* ' '.join(words[i:i+10]) for i in range(0, len(words), 10)
WordGroups(words) ==
    IF words = <<>> THEN <<>>
    ELSE <<Join(<<" ">>, SubSeq(words, 1, Min(ChunkWords, Len(words))))>>
         \o WordGroups(SubSeq(words, ChunkWords + 1, Len(words)))

RECURSIVE SplitLong(_)
\* the loop over the sentences
SplitLong(sentences) ==
    IF sentences = <<>> THEN <<>>
    ELSE LET words == SplitWords(Head(sentences))
         IN  (IF Len(words) <= MaxSentenceWords THEN <<Head(sentences)>>
              ELSE WordGroups(words))
             \o SplitLong(Tail(sentences))

_split_into_subtitles(text) ==
    With(SelectSeq(ReSplit(text), LAMBDA p : StripWs(p) # <<>>), LAMBDA kept :
    SplitLong([i \in 1..Len(kept) |-> StripWs(kept[i])]))

RECURSIVE TimedCues(_, _, _, _)
\* the loop over enumerate(sentences), from index i on
TimedCues(sentences, i, time_per_chunk, total_duration) ==
    IF i >= Len(sentences) THEN <<>>
    ELSE LET sentence == sentences[i + 1]
             start_time == FloatMulInt(i, time_per_chunk)
             end_time == PyMin(FloatMulInt(i + 1, time_per_chunk), total_duration)
         IN  (IF StripWs(sentence) # <<>>
              THEN AppCue(i + 1, start_time, end_time, StripWs(sentence))
              ELSE <<>>)
             \o TimedCues(sentences, i + 1, time_per_chunk, total_duration)

_convert_text_to_timed_vtt(text, total_duration) ==
    With(_split_into_subtitles(text), LAMBDA sentences :
    LET time_per_chunk == IF sentences # <<>>
                          THEN FloatDivInt(total_duration, Len(sentences))
                          ELSE total_duration
    IN  WEBVTT \o <<NL, NL>>
        \o TimedCues(sentences, 0, time_per_chunk, total_duration))

-----------------------------------------------------------------------------
(* The two conversions on their own *)

\* the most segments of one transcription result
MaxSegments == 3

\* segments of a transcription: back to back, of zero and of negative
\* length, with times that are no whole milliseconds as floats, with text
\* to trim, with blank and with empty text
SegmentChoices ==
    { [start |-> Float(0, 1), end |-> Float(2, 1), text |-> <<" ", "H", "e", "l", "l", "o", " ">>],
      [start |-> Float(2, 1), end |-> Float(5, 1), text |-> <<"w", "o", "r", "l", "d">>],
      [start |-> Float(2, 1), end |-> Float(2, 1), text |-> <<"x">>],
      [start |-> Float(5, 1), end |-> Float(4, 1), text |-> <<"y">>],
      [start |-> Float(1001, 1000), end |-> Float(23, 10), text |-> <<"z", "\n">>],
      [start |-> Float(0, 1), end |-> Float(1, 1), text |-> <<" ", " ">>],
      [start |-> Float(1, 1), end |-> Float(2, 1), text |-> <<>>] }

RECURSIVE SegmentLists(_)
\* the lists of exactly n segments
SegmentLists(n) ==
    IF n = 0 THEN {<<>>}
    ELSE {Append(l, g) : l \in SegmentLists(n - 1), g \in SegmentChoices}

SegmentInputs == UNION {SegmentLists(n) : n \in 0..MaxSegments}

\* transcripts of three sentences, of one without punctuation, of
\* punctuation only, empty, with blanks to trim, with runs of punctuation,
\* of eleven sentences, and with a sentence of sixteen words
TranscriptTexts ==
    { <<"O", "n", "e", ".", " ", "T", "w", "o", ".", " ", "T", "h", "r", "e", "e", ".">>,
      <<"H", "i", " ", "t", "h", "e", "r", "e">>,
      <<".", ".", ".", "?", "!">>,
      <<>>,
      <<" ", "a", " ", ".", " ", " ", "b", "!">>,
      <<"W", "a", "i", "t", ".", ".", ".", " ", "w", "h", "a", "t", "?", "!", " ", "Y", "e", "s">>,
      <<"a", ".", "b", ".", "c", ".", "d", ".", "e", ".", "f", ".", "g", ".", "h", ".", "i", ".", "j", ".", "k", ".">>,
      <<"a", " ", "b", " ", "c", " ", "d", " ", "e", " ", "f", " ", "g", " ", "h", " ", "i", " ", "j", " ", "k", " ", "l", " ", "m", " ", "n", " ", "o", " ", "p", ".", " ", "q">> }

\* total durations: 10 s, 60 s, 1 s, 2.3 s, 7.5 s, zero and negative
TotalDurations ==
    { Float(10, 1), Float(60, 1), Float(1, 1), Float(23, 10), Float(15, 2),
      Float(0, 1), Float(-3, 1) }

TextInputs == [text : TranscriptTexts, total_duration : TotalDurations]

\* the letters a..z as words
Letters ==
    << <<"a">>, <<"b">>, <<"c">>, <<"d">>, <<"e">>, <<"f">>, <<"g">>, <<"h">>,
       <<"i">>, <<"j">>, <<"k">>, <<"l">>, <<"m">>, <<"n">>, <<"o">>, <<"p">>,
       <<"q">>, <<"r">>, <<"s">>, <<"t">>, <<"u">>, <<"v">>, <<"w">>, <<"x">>,
       <<"y">>, <<"z">> >>

\* a sentence of the first n letters, one blank between two words
Sentence(n) == Join(<<" ">>, SubSeq(Letters, 1, n))

\* texts to split: the transcripts above, sentences of 15, 16, 20, 21 and 26
\* words, and a short sentence with runs of whitespace in it
SplitTexts ==
    TranscriptTexts
    \cup { Sentence(15) \o <<".">>,
           Sentence(16) \o <<"!">>,
           Sentence(20),
           <<"N", "o", "?", " ">> \o Sentence(21) \o <<"?", "!", " ", "x", " ", "y", ".">>,
           <<" ">> \o Sentence(26) \o <<" ", ".", " ", ".">>,
           <<"a", " ", "\t", "b", ".", "\n", " ", "c", " ", " ", "d", "\n">> }

InitConvert ==
    /\ VTTGenerator_init
    /\ NoOthers
    /\ calls = <<>>
    /\ ret = RetNone
    /\ \/ op = "segments" /\ arg \in SegmentInputs
       \/ op = "text" /\ arg \in TextInputs
       \/ op = "sentences" /\ arg \in SplitTexts

split_into_subtitles_call ==
    /\ op = "sentences"
    /\ op' = "_split_into_subtitles"
    /\ ret' = RetList(_split_into_subtitles(arg))
    /\ UNCHANGED <<captions, styles, calls, arg>>
    /\ UNCHANGED others

convert_whisper_to_vtt_call ==
    /\ op = "segments"
    /\ op' = "_convert_whisper_to_vtt"
    /\ ret' = RetStr(_convert_whisper_to_vtt(arg))
    /\ UNCHANGED <<captions, styles, calls, arg>>
    /\ UNCHANGED others

convert_text_to_timed_vtt_call ==
    /\ op = "text"
    /\ op' = "_convert_text_to_timed_vtt"
    /\ ret' = RetStr(_convert_text_to_timed_vtt(arg.text, arg.total_duration))
    /\ UNCHANGED <<captions, styles, calls, arg>>
    /\ UNCHANGED others

NextConvert ==
    \/ convert_whisper_to_vtt_call
    \/ convert_text_to_timed_vtt_call
    \/ split_into_subtitles_call

SpecConvert == InitConvert /\ [][NextConvert]_vars

-----------------------------------------------------------------------------
(* CaptionCraftStudio.process_media_file: the calls it makes on the status
   bar, the editor, the preview and the audio collaborators, in order.
   env tells what the collaborators answer. *)

Call(name, a) == [op |-> name, arg |-> a]

\* update_progress(value, message)
Progress(value, message) == Call("update_progress", <<value, message>>)

\* loading the text into editor and preview, the success message and the
\* backup of the transcript
ShowResult(vtt_content, message, transcript) ==
    << Call("set_subtitle_text", vtt_content),
       Call("update_preview", vtt_content),
       Call("show_success", <<message>>),
       Call("_auto_save_transcription", transcript) >>

\* lines 334-354: the calls of the Whisper attempt, and whether it returned
\* from the method
WhisperAttempt(env) ==
    IF ~env.whisper_available THEN [trace |-> <<>>, returned |-> FALSE]
    ELSE LET begun == << Progress("0.4", "AI transcribing with timing..."),
                         Call("transcribe_media", None) >>
             result == env.transcribe
         IN  IF result.kind = "raise"
             THEN [trace |-> begun, returned |-> FALSE]
             ELSE IF result.success /\ result.segments # <<>>
             THEN [trace |-> begun
                        \o <<Progress("0.8", "Creating timed subtitles...")>>
                        \o ShowResult(_convert_whisper_to_vtt(result.segments),
                                      "AI transcription complete", result.text),
                   returned |-> TRUE]
             ELSE [trace |-> begun, returned |-> FALSE]

\* lines 356-382: the calls of the fallback, and whether it raised
FallbackAttempt(env) ==
    LET begun == << Progress("0.4", "Using fallback transcription..."),
                    Call("AudioExtractor", None) >>
        extract == << Progress("0.6", "Extracting audio..."),
                      Call("extract_audio_from_video", None) >>
    IN  IF env.extractor = "raise" THEN [trace |-> begun, raised |-> TRUE]
        ELSE IF env.extractor = "unavailable"
        THEN [trace |-> begun
                  \o <<Call("show_error", <<"Audio processing not available">>)>>,
              raised |-> FALSE]
        ELSE IF env.extract = "raise"
        THEN [trace |-> begun \o extract, raised |-> TRUE]
        ELSE IF env.transcription.kind = "raise"
        THEN [trace |-> begun \o extract \o <<Call("transcribe_audio", None)>>,
              raised |-> TRUE]
        ELSE IF env.duration.kind = "raise"
        THEN [trace |-> begun \o extract
                  \o << Call("transcribe_audio", None),
                        Call("get_audio_duration", None) >>,
              raised |-> TRUE]
        ELSE [trace |-> begun \o extract
                  \o << Call("transcribe_audio", None),
                        Call("get_audio_duration", None),
                        Progress("0.8", "Creating subtitles with timing...") >>
                  \o ShowResult(_convert_text_to_timed_vtt(env.transcription.val,
                                                           env.duration.val),
                                "Transcription complete", env.transcription.val),
              raised |-> FALSE]

\* lines 356-387: the fallback, and the except clause when it raises
FallbackOrError(env) ==
    With(FallbackAttempt(env), LAMBDA fallback :
    fallback.trace
    \o (IF fallback.raised
        THEN <<Call("show_error", <<"Media processing error">>)>> ELSE <<>>))

\* lines 321-387: the try block with its except clause
TryBlock(env) ==
    LET started == <<Call("show_progress", <<"Starting media processing...">>)>>
    IN  IF ~env.file_exists
        THEN started \o <<Call("show_error", <<"File not found">>)>>
        ELSE IF env.processor = "raise"
        THEN started
             \o << Progress("0.2", "Initializing AI transcription..."),
                   Call("show_error", <<"Media processing error">>) >>
        ELSE started
             \o << Progress("0.2", "Initializing AI transcription..."),
                   Call("UnifiedAudioProcessor", None) >>
             \o With(WhisperAttempt(env), LAMBDA whisper :
                     whisper.trace
                     \o (IF whisper.returned THEN <<>> ELSE FallbackOrError(env)))

\* 'processor' in locals()
ProcessorCreated(env) == env.file_exists /\ env.processor # "raise"

\* a finally block that hides the indicator only when no processor is held
FinallyBlock_HidesOrCleans(env) ==
    IF ProcessorCreated(env) THEN <<Call("cleanup", None)>>
    ELSE <<Call("hide_progress", None)>>

\* lines 389-392: the finally block
FinallyBlock(env) ==
    <<Call("hide_progress", None)>>
    \o (IF ProcessorCreated(env) THEN <<Call("cleanup", None)>> ELSE <<>>)

process_media_file_calls(env) == TryBlock(env) \o FinallyBlock(env)

-----------------------------------------------------------------------------
(* Processing one media file *)

\* what transcribe_media answers: an exception, no method available, and
\* success with no segment, one segment and two segments
TranscribeResults ==
    { [kind |-> "raise"],
      [kind |-> "dict", success |-> FALSE, segments |-> <<>>, text |-> <<>>],
      [kind |-> "dict", success |-> TRUE, segments |-> <<>>, text |-> <<>>],
      [kind |-> "dict", success |-> TRUE,
       segments |-> <<[start |-> Float(0, 1), end |-> Float(2, 1),
                       text |-> <<" ", "H", "e", "l", "l", "o">>]>>,
       text |-> <<" ", "H", "e", "l", "l", "o">>],
      [kind |-> "dict", success |-> TRUE,
       segments |-> <<[start |-> Float(0, 1), end |-> Float(2, 1),
                       text |-> <<" ", "H", "e", "l", "l", "o">>],
                      [start |-> Float(2, 1), end |-> Float(5, 1),
                       text |-> <<" ", "w", "o", "r", "l", "d">>]>>,
       text |-> <<" ", "H", "e", "l", "l", "o", " ", "w", "o", "r", "l", "d">>] }

\* what the collaborators answer during one call
MediaEnvs ==
    [file_exists : BOOLEAN,
     processor : {"ok", "raise"},
     whisper_available : BOOLEAN,
     transcribe : TranscribeResults,
     extractor : {"available", "unavailable", "raise"},
     extract : {"ok", "raise"},
     transcription : {Raise("Exception"), RetStr(<<"H", "i", " ", "t", "h", "e", "r", "e">>), RetStr(<<>>)},
     duration : {Raise("FileNotFoundError"),
                 [kind |-> "float", val |-> Float(10, 1)]}]

InitMedia ==
    /\ VTTGenerator_init
    /\ NoOthers
    /\ calls = <<>>
    /\ ret = RetNone
    /\ op = "env"
    /\ arg \in MediaEnvs

process_media_file ==
    /\ op = "env"
    /\ op' = "process_media_file"
    /\ calls' = process_media_file_calls(arg)
    /\ ret' = RetNone
    /\ UNCHANGED <<captions, styles, arg>>
    /\ UNCHANGED others

NextMedia == process_media_file

SpecMedia == InitMedia /\ [][NextMedia]_vars

-----------------------------------------------------------------------------
(* Reading converted text back *)

\* the timing line "START --> END" of cue k
TimingLine(lines, k) == CueLine(lines, k, 2)

\* where " --> " begins in a timing line
ArrowAt(line) ==
    CHOOSE i \in 1..Len(line) : SubSeq(line, i, i + Len(Arrow) - 1) = Arrow

CueStart(lines, k) ==
    SubSeq(TimingLine(lines, k), 1, ArrowAt(TimingLine(lines, k)) - 1)

CueEnd(lines, k) ==
    SubSeq(TimingLine(lines, k),
           ArrowAt(TimingLine(lines, k)) + Len(Arrow), Len(TimingLine(lines, k)))

\* digits, two ':' and one '.', as in HH:MM:SS.mmm
IsStamp(s) ==
    /\ Len(s) = 12
    /\ \A i \in 1..Len(s) :
           IF i \in {3, 6} THEN s[i] = ":"
           ELSE IF i = 9 THEN s[i] = "."
           ELSE s[i] \in DigitChars

\* the whole milliseconds in a float x >= 0: floor(1000 * x), exactly
WholeMillis(x) ==
    FloatIntPart(x) * 1000
    + BigToNat(BigShr(BigMulSmall(FloatFracBits(x), 1000), -FloatFracExp(x)))

\* x >= 0 is a whole number of milliseconds
IsWholeMillis(x) ==
    BigLow(BigMulSmall(FloatFracBits(x), 1000), -FloatFracExp(x)) = <<>>

\* the timestamp stands for the time x to the millisecond: for the last
\* whole millisecond before x or, when x is not a whole millisecond, for the
\* first one after it
IsMillisOf(stamp, x) ==
    /\ IsStamp(stamp)
    /\ \/ ReadMs(stamp) = WholeMillis(x)
       \/ ~IsWholeMillis(x) /\ ReadMs(stamp) = WholeMillis(x) + 1

\* t is text without the whitespace around it
IsTrimOf(t, text) ==
    \E i \in 1..Len(text) : \E j \in i..Len(text) :
        /\ t = SubSeq(text, i, j)
        /\ text[i] \notin Whitespace /\ text[j] \notin Whitespace
        /\ \A m \in 1..Len(text) : (m < i \/ m > j) => text[m] \in Whitespace

IsBlank(text) == \A i \in 1..Len(text) : text[i] \in Whitespace

FromSegments == op = "_convert_whisper_to_vtt"
FromText == op = "_convert_text_to_timed_vtt"

-----------------------------------------------------------------------------
(* C14 -- _convert_whisper_to_vtt emits no cue for a segment whose trimmed
   text is empty and exactly one cue for every other segment, in input
   order, with that segment's own start and end times (to the millisecond)
   and its trimmed text. *)
C14_OneCuePerNonEmptySegment ==
    FromSegments =>
        LET lines == Lines(ret.val)
            kept == SelectSeq(arg, LAMBDA g : ~IsBlank(g.text))
        IN  /\ WellFormedCues(lines)
            /\ NumCues(lines) = Len(kept)
            /\ \A k \in 1..Len(kept) :
                   /\ IsMillisOf(CueStart(lines, k), kept[k].start)
                   /\ IsMillisOf(CueEnd(lines, k), kept[k].end)
                   /\ IsTrimOf(CueLine(lines, k, 3), kept[k].text)

\* a blank segment between two others was dropped, one with times that are
\* no whole milliseconds was kept
C14_Witness ==
    /\ FromSegments
    /\ Len(arg) = 3
    /\ ~IsBlank(arg[1].text) /\ IsBlank(arg[2].text) /\ ~IsBlank(arg[3].text)
    /\ ~IsWholeMillis(arg[3].start)
    /\ NumCues(Lines(ret.val)) = 2

-----------------------------------------------------------------------------
(* C15 -- every cue made from a timed segment has end >= start + 1ms: a
   segment whose end is not after its start has its end raised to
   start + 1ms before it is emitted. *)
C15_SegmentEndClamped ==
    FromSegments =>
        \A k \in 1..NumCues(Lines(ret.val)) :
            ReadMs(CueEnd(Lines(ret.val), k))
                >= ReadMs(CueStart(Lines(ret.val), k)) + 1

-----------------------------------------------------------------------------
(* Reading the cues made from plain text *)

TextLines == Lines(ret.val)

\* every timing line of the text holds two timestamps HH:MM:SS.mmm
AllStamps(lines) ==
    \A k \in 1..NumCues(lines) :
        IsStamp(CueStart(lines, k)) /\ IsStamp(CueEnd(lines, k))

\* milliseconds from the start of cue k to its end
SpanMs(lines, k) == ReadMs(CueEnd(lines, k)) - ReadMs(CueStart(lines, k))

PositiveDuration ==
    ~FloatIsZero(arg.total_duration) /\ ~arg.total_duration.neg

-----------------------------------------------------------------------------
(* C17 -- for any transcript text and total_duration > 0, the cues of
   _convert_text_to_timed_vtt are as many as the chunks returned by
   _split_into_subtitles, their start times never decrease, and the end of
   the last cue is total_duration. *)
C17_LastEndIsTotalDuration ==
    (FromText /\ PositiveDuration) =>
        LET n == NumCues(TextLines)
        IN  /\ WellFormedCues(TextLines)
            /\ n = Len(_split_into_subtitles(arg.text))
            /\ AllStamps(TextLines)
            /\ \A k \in 1..(n - 1) :
                   ReadMs(CueStart(TextLines, k))
                       <= ReadMs(CueStart(TextLines, k + 1))
            /\ n > 0 => IsMillisOf(CueEnd(TextLines, n), arg.total_duration)

-----------------------------------------------------------------------------
(* C18 -- the cues of _convert_text_to_timed_vtt cover [0, total_duration]
   without gaps or overlaps: the first cue starts at 0, every later cue
   starts at the end of the cue before it, and each of the N cues spans
   total_duration / N (within the millisecond of the timestamps). *)
C18_UniformCover ==
    (FromText /\ NumCues(TextLines) > 0) =>
        LET n == NumCues(TextLines)
        IN  /\ AllStamps(TextLines)
            /\ ReadMs(CueStart(TextLines, 1)) = 0
            /\ \A k \in 2..n : CueStart(TextLines, k) = CueEnd(TextLines, k - 1)
            /\ ~arg.total_duration.neg
            /\ \A k \in 1..n :
                   /\ n * SpanMs(TextLines, k) > WholeMillis(arg.total_duration) - n
                   /\ n * SpanMs(TextLines, k) < WholeMillis(arg.total_duration) + 1 + n

-----------------------------------------------------------------------------
(* C19 -- when the splitting of the transcript yields no chunk, the text of
   _convert_text_to_timed_vtt has exactly one cue, which carries the whole
   input text and spans from 0 to total_duration. *)
C19_NoChunksOneCue ==
    (FromText /\ _split_into_subtitles(arg.text) = <<>>) =>
        /\ NumCues(TextLines) = 1
        /\ CueLine(TextLines, 1, 3) = arg.text
        /\ AllStamps(TextLines)
        /\ ReadMs(CueStart(TextLines, 1)) = 0
        /\ ~arg.total_duration.neg
        /\ IsMillisOf(CueEnd(TextLines, 1), arg.total_duration)

-----------------------------------------------------------------------------
(* C20 -- called with total_duration <= 0, _convert_text_to_timed_vtt
   returns what it returns for a total_duration of 1.0 second, and no cue
   has a zero or negative length. *)
C20_NonPositiveDurationIsOneSecond ==
    (FromText /\ ~PositiveDuration) =>
        /\ ret.val = _convert_text_to_timed_vtt(arg.text, Float(1, 1))
        /\ AllStamps(TextLines)
        /\ \A k \in 1..NumCues(TextLines) : SpanMs(TextLines, k) > 0

-----------------------------------------------------------------------------
(* Reading the calls of process_media_file back *)

Called(name) == \E i \in 1..Len(calls) : calls[i].op = name

\* the texts loaded into the editor
EditorTexts ==
    {calls[i].arg : i \in {j \in 1..Len(calls) : calls[j].op = "set_subtitle_text"}}

\* the transcription collaborator was reached and answered success with an
\* empty segment list
ZeroSegments ==
    /\ op = "process_media_file"
    /\ Called("transcribe_media")
    /\ arg.transcribe.kind = "dict"
    /\ arg.transcribe.success
    /\ arg.transcribe.segments = <<>>

-----------------------------------------------------------------------------
(* C16 -- when the transcription collaborator succeeds with zero segments,
   process_media_file loads an empty subtitle document (the header only)
   into the editor, reports no error and runs no other transcription
   path. *)
C16_ZeroSegmentsEmptyDocument ==
    ZeroSegments =>
        /\ EditorTexts = {WEBVTT \o <<NL, NL>>}
        /\ ~Called("show_error")
        /\ ~Called("AudioExtractor")
        /\ ~Called("transcribe_audio")

-----------------------------------------------------------------------------
(* Reading the chunks of _split_into_subtitles back *)

FromSplit == op = "_split_into_subtitles"

\* the words of a text in which '.', '!' and '?' separate words as
\* whitespace does
AllWords(text) ==
    SplitWords([i \in 1..Len(text) |->
                   IF text[i] \in Terminators THEN " " ELSE text[i]])

\* <<i, j>> for every longest stretch text[i..j] free of '.', '!' and '?'
\* that is not blank
KeptSpans(text) ==
    {s \in (1..Len(text)) \X (1..Len(text)) :
        /\ s[1] <= s[2]
        /\ \A i \in s[1]..s[2] : text[i] \notin Terminators
        /\ (s[1] = 1 \/ text[s[1] - 1] \in Terminators)
        /\ (s[2] = Len(text) \/ text[s[2] + 1] \in Terminators)
        /\ ~IsBlank(SubSeq(text, s[1], s[2]))}

\* the k-th of these stretches, from the left
KeptSentence(text, k) ==
    LET s == CHOOSE s \in KeptSpans(text) :
                 Cardinality({t \in KeptSpans(text) : t[1] < s[1]}) = k - 1
    IN  SubSeq(text, s[1], s[2])

\* the number of chunks a sentence of w words is given
ChunksFor(w) ==
    IF w <= MaxSentenceWords THEN 1 ELSE (w + ChunkWords - 1) \div ChunkWords

RECURSIVE ChunksBefore(_, _)
\* the number of chunks of the sentences before the k-th
ChunksBefore(text, k) ==
    IF k <= 1 THEN 0
    ELSE ChunksBefore(text, k - 1)
         + ChunksFor(Len(SplitWords(KeptSentence(text, k - 1))))

RECURSIVE WordsOfAll(_)
\* the words of all chunks, in order
WordsOfAll(chunks) ==
    IF chunks = <<>> THEN <<>>
    ELSE SplitWords(Head(chunks)) \o WordsOfAll(Tail(chunks))

-----------------------------------------------------------------------------
(* C21 -- _split_into_subtitles splits the text on runs of '.', '!' and
   '?' and drops blank candidates; a sentence of at most 15 words is one
   chunk, a sentence of more than 15 words becomes consecutive chunks of at
   most 10 words; every chunk is non-empty, and the words of all chunks in
   order are the words of the kept sentences in order, none lost and none
   twice. *)
C21_SplitKeepsWords ==
    FromSplit =>
        LET n == Cardinality(KeptSpans(arg))
        IN  /\ Len(ret.val) = ChunksBefore(arg, n + 1)
            /\ \A c \in 1..Len(ret.val) : ~IsBlank(ret.val[c])
            /\ WordsOfAll(ret.val) = AllWords(arg)
            /\ \A k \in 1..n :
                   LET sentence == KeptSentence(arg, k)
                       w == Len(SplitWords(sentence))
                       first == ChunksBefore(arg, k) + 1
                   IN  IF w <= MaxSentenceWords
                       THEN IsTrimOf(ret.val[first], sentence)
                       ELSE \A c \in first..(first + ChunksFor(w) - 1) :
                                Len(SplitWords(ret.val[c])) <= ChunkWords

\* a sentence of 21 words became chunks of 10, 10 and 1 words between two
\* short sentences
C21_Witness ==
    /\ FromSplit
    /\ Len(ret.val) = 5
    /\ Len(SplitWords(ret.val[2])) = 10
    /\ Len(SplitWords(ret.val[4])) = 1
    /\ Len(AllWords(arg)) = 24

-----------------------------------------------------------------------------
(* VTTGenerator.save_to_file: the document written to a file.  The file
   system answers each call: open() succeeds or raises, write() succeeds or
   raises after part of the text went out. *)

\* open(filename, 'w') without truncating what the file holds
OpenForWrite_KeepsOld(fs, filename) ==
    [p \in DOMAIN fs \cup {filename} |->
        IF p \in DOMAIN fs THEN fs[p] ELSE <<>>]

\* open(filename, 'w'): the file is created, or emptied when it exists
OpenForWrite(fs, filename) ==
    [p \in DOMAIN fs \cup {filename} |->
        IF p = filename THEN <<>> ELSE fs[p]]

\* f.write(text) on the file opened at filename
FileWrite(fs, filename, text) == [fs EXCEPT ![filename] = @ \o text]

\* what a write that raises leaves in the file: nothing or the first half
PartWritten(text, part) ==
    IF part = "half" THEN SubSeq(text, 1, Len(text) \div 2) ELSE <<>>

SaveOutcomes == {"ok", "open raises", "write raises"}

SavePaths == {"out.vtt", "copy.vtt"}

\* documents to save: no caption, one caption, two captions; no style and
\* one style
SavedDocuments ==
    [captions : {<<>>}
                \cup {add_caption_result(<<>>, c.start, c.end, c.text, c.style) :
                        c \in CaptionArgs}
                \cup {add_caption_result(
                          add_caption_result(<<>>, Stamp(0), Stamp(2), Hello, None),
                          Stamp(2), Stamp(5), World, Some(Highlight))},
     styles : {<<>>} \cup {set_style_result(<<>>, y[1], y[2]) : y \in StyleArgs}]

InitSave ==
    /\ \E d \in SavedDocuments : captions = d.captions /\ styles = d.styles
    /\ files = <<>>
    /\ config = <<>>
    /\ tab = <<>>
    /\ threads = <<>>
    /\ calls = <<>>
    /\ op = "init"
    /\ arg = None
    /\ ret = RetNone

\* lines 249-251: the files, the file calls made and the outcome of the call
save_to_file_result(fs, caps, stys, filename, outcome, part) ==
    With(VttContent(caps, stys), LAMBDA content :
    IF outcome = "open raises"
    THEN [files |-> fs,
          calls |-> <<Call("open", filename)>>,
          ret |-> Raise("OSError")]
    ELSE IF outcome = "write raises"
    THEN [files |-> FileWrite(OpenForWrite(fs, filename), filename,
                              PartWritten(content, part)),
          calls |-> <<Call("open", filename), Call("write", content)>>,
          ret |-> Raise("OSError")]
    ELSE [files |-> FileWrite(OpenForWrite(fs, filename), filename, content),
          calls |-> <<Call("open", filename), Call("write", content)>>,
          ret |-> RetNone])

\* calls holds the file calls of this invocation
save_to_file(filename, outcome, part) ==
    /\ op' = "save_to_file"
    /\ arg' = [filename |-> filename, outcome |-> outcome]
    /\ \E r \in {save_to_file_result(files, captions, styles, filename,
                                     outcome, part)} :
           /\ files' = r.files
           /\ calls' = r.calls
           /\ ret' = r.ret
    /\ UNCHANGED <<captions, styles, config, tab, threads>>

NextSave ==
    \E f \in SavePaths : \E o \in SaveOutcomes : \E part \in {"nothing", "half"} :
        save_to_file(f, o, part)

SpecSave == InitSave /\ [][NextSave]_vars

-----------------------------------------------------------------------------
(* C22 -- save_to_file(path) writes exactly the text generate_vtt_content()
   returns for the current document; when the write fails the error reaches
   the caller, the file is opened once (no retry), and the captions and
   styles of the document are unchanged. *)
C22_SaveWritesDocument ==
    [][op' = "save_to_file" =>
        /\ captions' = captions
        /\ styles' = styles
        /\ Len(SelectSeq(calls', LAMBDA c : c.op = "open")) = 1
        /\ Len(SelectSeq(calls', LAMBDA c : c.op = "write")) <= 1
        /\ IF arg'.outcome = "ok"
           THEN /\ ret' = RetNone
                /\ arg'.filename \in DOMAIN files'
                /\ files'[arg'.filename] = VttContent(captions, styles)
           ELSE ret'.kind = "raise"]_vars

\* a write failed on one path after the document was saved whole to the
\* other
C22_Witness ==
    /\ op = "save_to_file"
    /\ arg.outcome = "write raises"
    /\ captions # <<>>
    /\ files[arg.filename] # VttContent(captions, styles)
    /\ \E p \in DOMAIN files : files[p] = VttContent(captions, styles)

-----------------------------------------------------------------------------
(* UnifiedAudioProcessor.transcribe_media: what it returns and the calls it
   makes on the Whisper transcriber and the audio extractor.  env tells
   what exists and what the collaborators answer; a key a Whisper result
   lacks is None. *)

\* lines 231-237 and 252-258: the dict returned for a Whisper result, and
\* KeyError when the result has no "text"
WhisperSuccess(result) ==
    IF result.text = None THEN Raise("KeyError")
    ELSE [kind |-> "dict", method |-> "whisper", success |-> TRUE,
          text |-> result.text[1],
          segments |-> IF result.segments = None THEN <<>> ELSE result.segments[1],
          language |-> IF result.language = None THEN "en" ELSE result.language[1]]

\* lines 263-269
NoMethodResult ==
    [kind |-> "dict", method |-> "none", success |-> FALSE,
     error |-> "No audio transcription methods available",
     text |-> <<>>, segments |-> <<>>]

\* one call of self.whisper.transcribe_audio and what is made of its answer
TranscribeAttempt(path, answer) ==
    [calls |-> <<Call("transcribe_audio", path)>>,
     ret |-> IF answer.kind = "raise" THEN answer ELSE WhisperSuccess(answer)]

\* the fallback with its exceptions let through
ExtractionFallback_Propagates(env) ==
    IF env.extract = "raise"
    THEN [calls |-> <<Call("extract_audio_for_whisper", "media")>>,
          ret |-> Raise("RuntimeError")]
    ELSE With(TranscribeAttempt("audio", env.second), LAMBDA second :
         [calls |-> <<Call("extract_audio_for_whisper", "media")>> \o second.calls,
          ret |-> second.ret])

\* lines 243-260: the fallback; whatever it raises is caught and the method
\* goes on to its last return
ExtractionFallback(env) ==
    IF env.extract = "raise"
    THEN [calls |-> <<Call("extract_audio_for_whisper", "media")>>,
          ret |-> NoMethodResult]
    ELSE With(TranscribeAttempt("audio", env.second), LAMBDA second :
         [calls |-> <<Call("extract_audio_for_whisper", "media")>> \o second.calls,
          ret |-> IF second.ret.kind = "raise" THEN NoMethodResult
                  ELSE second.ret])

\* lines 212-270
transcribe_media_result(env) ==
    IF ~env.exists
    THEN [calls |-> <<>>, ret |-> Raise("FileNotFoundError")]
    ELSE IF env.whisper = "None"
    THEN [calls |-> <<>>, ret |-> NoMethodResult]
    ELSE With(TranscribeAttempt("abspath(media)", env.direct), LAMBDA direct :
         IF direct.ret.kind # "raise" THEN direct
         ELSE IF env.audio_extractor = "None"
         THEN [calls |-> direct.calls, ret |-> NoMethodResult]
         ELSE With(ExtractionFallback(env), LAMBDA fallback :
              [calls |-> direct.calls \o fallback.calls, ret |-> fallback.ret]))

\* what self.whisper.transcribe_audio answers: an exception, a result with
\* all keys, a result with "text" only and a result without "text"
WhisperAnswers ==
    { Raise("ValueError"),
      [kind |-> "dict", text |-> Some(<<"H", "i">>),
       segments |-> Some(<<[start |-> Float(0, 1), end |-> Float(2, 1),
                            text |-> <<"H", "i">>]>>),
       language |-> Some("fr")],
      [kind |-> "dict", text |-> Some(<<>>), segments |-> None, language |-> None],
      [kind |-> "dict", text |-> None, segments |-> Some(<<>>), language |-> Some("en")] }

TranscribeEnvs ==
    [exists : BOOLEAN,
     whisper : {"None", "WhisperTranscriber"},
     audio_extractor : {"None", "AudioExtractor"},
     direct : WhisperAnswers,
     extract : {"ok", "raise"},
     second : WhisperAnswers]

InitTranscribe ==
    /\ VTTGenerator_init
    /\ NoOthers
    /\ calls = <<>>
    /\ ret = RetNone
    /\ op = "env"
    /\ arg \in TranscribeEnvs

transcribe_media ==
    /\ op = "env"
    /\ op' = "transcribe_media"
    /\ \E r \in {transcribe_media_result(arg)} :
           /\ calls' = r.calls
           /\ ret' = r.ret
    /\ UNCHANGED <<captions, styles, arg>>
    /\ UNCHANGED others

NextTranscribe == transcribe_media

SpecTranscribe == InitTranscribe /\ [][NextTranscribe]_vars

-----------------------------------------------------------------------------
(* Reading a call of transcribe_media back *)

\* the answer of Whisper is an exception or lacks the "text" the method reads
Fails(answer) == answer.kind = "raise" \/ answer.text = None

\* no method left: Whisper absent, or the direct attempt failed and the
\* fallback is absent or failed
NothingWorks(env) ==
    \/ env.whisper = "None"
    \/ /\ Fails(env.direct)
       /\ \/ env.audio_extractor = "None"
          \/ env.extract = "raise"
          \/ Fails(env.second)

\* the positions in calls of the calls of one method
CallsAt(name) == {i \in 1..Len(calls) : calls[i].op = name}

-----------------------------------------------------------------------------
(* C23 -- transcribe_media on an existing media path never raises; when
   Whisper is unavailable, or the direct transcription fails and the
   extraction fallback is absent or fails too, it returns success = False,
   method "none", empty text and no segments; the extraction fallback is
   attempted at most once and only after the direct attempt has failed. *)
C23_TranscribeNeverRaises ==
    (op = "transcribe_media" /\ arg.exists) =>
        /\ ret.kind = "dict"
        /\ NothingWorks(arg) =>
               /\ ~ret.success
               /\ ret.method = "none"
               /\ ret.text = <<>>
               /\ ret.segments = <<>>
        /\ Cardinality(CallsAt("extract_audio_for_whisper")) <= 1
        /\ \A i \in CallsAt("extract_audio_for_whisper") :
               /\ Fails(arg.direct)
               /\ \E j \in CallsAt("transcribe_audio") : j < i

\* the direct attempt raised, the audio was extracted and the second
\* attempt raised too
C23_Witness ==
    /\ op = "transcribe_media"
    /\ arg.exists
    /\ arg.direct.kind = "raise"
    /\ arg.second.kind = "raise"
    /\ Cardinality(CallsAt("extract_audio_for_whisper")) = 1
    /\ Cardinality(CallsAt("transcribe_audio")) = 2
    /\ ret = NoMethodResult

-----------------------------------------------------------------------------
(* ConfigManager: the configuration in memory.  config is the sequence of
   the dict objects made so far; config[1] is self.config, and a value of
   kind "ref" is the dict object of that number, so that one dict stored
   under two keys is one object, as in Python. *)

StrVal(s) == [kind |-> "str", val |-> s]
IntVal(n) == [kind |-> "int", val |-> n]
ListVal(l) == [kind |-> "list", val |-> l]
Ref(id) == [kind |-> "ref", val |-> id]
NoneVal == [kind |-> "None"]

\* self.config
RootDict == 1

\* key in d, for a dict kept as a sequence of pairs
HasKey(d, key) == \E i \in 1..Len(d) : d[i][1] = key

\* d[key]
Lookup(d, key) == d[CHOOSE i \in 1..Len(d) : d[i][1] = key][2]

\* lines 100-122: _create_default_config
DefaultConfig ==
    << << <<<<"a", "p", "p">>, Ref(2)>>,
          <<<<"u", "i">>, Ref(3)>>,
          <<<<"d", "e", "f", "a", "u", "l", "t", "_", "s", "t", "y", "l", "e", "s">>, Ref(4)>>,
          <<<<"s", "u", "b", "t", "i", "t", "l", "e", "_", "m", "o", "d", "e", "s">>,
            ListVal(<<StrVal("block"), StrVal("word_by_word"), StrVal("karaoke")>>)>>,
          <<<<"s", "u", "p", "p", "o", "r", "t", "e", "d", "_", "f", "o", "r", "m", "a", "t", "s">>,
            ListVal(<<StrVal("vtt"), StrVal("srt"), StrVal("sbv"), StrVal("txt")>>)>>,
          <<<<"r", "e", "c", "e", "n", "t", "_", "f", "i", "l", "e", "s">>, ListVal(<<>>)>> >>,
       << <<<<"n", "a", "m", "e">>, StrVal("CaptionCraft Studio")>>,
          <<<<"v", "e", "r", "s", "i", "o", "n">>, StrVal("1.0.0")>>,
          <<<<"a", "u", "t", "h", "o", "r">>, StrVal("Tetteh-Kofi (Isaac Tetteh-Apotey)")>> >>,
       << <<<<"t", "h", "e", "m", "e">>, StrVal("dark")>>,
          <<<<"l", "a", "n", "g", "u", "a", "g", "e">>, StrVal("en")>>,
          <<<<"f", "o", "n", "t", "_", "s", "i", "z", "e">>, IntVal(12)>> >>,
       << <<<<"f", "o", "n", "t", "_", "f", "a", "m", "i", "l", "y">>, StrVal("Arial")>>,
          <<<<"f", "o", "n", "t", "_", "s", "i", "z", "e">>, StrVal("24px")>>,
          <<<<"t", "e", "x", "t", "_", "c", "o", "l", "o", "r">>, StrVal("#FFFFFF")>>,
          <<<<"b", "a", "c", "k", "g", "r", "o", "u", "n", "d", "_", "c", "o", "l", "o", "r">>, StrVal("#000000")>>,
          <<<<"h", "i", "g", "h", "l", "i", "g", "h", "t", "_", "c", "o", "l", "o", "r">>, StrVal("#FFD700")>> >> >>

RECURSIVE GetFrom(_, _, _, _)
\* lines 172-176: the loop of get over the keys left
GetFrom(heap, value, keys, default) ==
    IF keys = <<>> THEN value
    ELSE IF value.kind = "ref" /\ HasKey(heap[value.val], Head(keys))
    THEN GetFrom(heap, Lookup(heap[value.val], Head(keys)), Tail(keys), default)
    ELSE default

\* lines 168-178
ConfigGet(heap, key, default) ==
    GetFrom(heap, Ref(RootDict), Split(key, "."), default)

\* the assignment at the last key made in the dict the walk starts from
SetIn_SkipsWalk(heap, id, keys, value) ==
    [heap EXCEPT ![id] = DictSet(@, keys[Len(keys)], value)]

RECURSIVE SetIn(_, _, _, _)
\* lines 198-206: from the dict numbered id, the loop over keys[:-1], which
\* puts a new dict where there is none, and the assignment at the last key
SetIn(heap, id, keys, value) ==
    IF Len(keys) = 1 THEN [heap EXCEPT ![id] = DictSet(@, keys[1], value)]
    ELSE IF HasKey(heap[id], Head(keys))
            /\ Lookup(heap[id], Head(keys)).kind = "ref"
    THEN SetIn(heap, Lookup(heap[id], Head(keys)).val, Tail(keys), value)
    ELSE SetIn(Append([heap EXCEPT ![id] = DictSet(@, Head(keys), Ref(Len(heap) + 1))],
                      <<>>),
               Len(heap) + 1, Tail(keys), value)

\* lines 195-206, without the save
ConfigSet(heap, key, value) == SetIn(heap, RootDict, Split(key, "."), value)

RECURSIVE JsonOf(_, _, _)
\* the value written by json.dump: dicts in place of their numbers, and
\* "circular" where json.dump raises ValueError for a dict inside itself
JsonOf(heap, value, inside) ==
    IF value.kind # "ref" THEN value
    ELSE IF value.val \in inside THEN [kind |-> "circular"]
    ELSE [kind |-> "dict",
          val |-> [i \in 1..Len(heap[value.val]) |->
                      <<heap[value.val][i][1],
                        JsonOf(heap, heap[value.val][i][2], inside \cup {value.val})>>]]

RECURSIVE IsCircular(_)
IsCircular(json) ==
    \/ json.kind = "circular"
    \/ json.kind = "dict" /\ \E i \in 1..Len(json.val) : IsCircular(json.val[i][2])

ConfigFile == "config.json"

\* lines 133-143: save_config; an exception of open or json.dump is printed
\* and the file is left with what was written before it
SaveConfig(fs, heap, outcome) ==
    With(JsonOf(heap, Ref(RootDict), {}), LAMBDA json :
    IF outcome = "open raises" THEN fs
    ELSE [p \in DOMAIN fs \cup {ConfigFile} |->
             IF p # ConfigFile THEN fs[p]
             ELSE IF outcome = "write raises" \/ IsCircular(json)
             THEN [kind |-> "part"]
             ELSE json])

-----------------------------------------------------------------------------
(* Reading and changing the configuration *)

\* the number of set calls on one ConfigManager
MaxSets == 2

ConfigKeys ==
    { <<"u", "i">>,
      <<"u", "i", ".", "t", "h", "e", "m", "e">>,
      <<"u", "i", ".", "s", "e", "l", "f">>,
      <<"u", "i", ".", "s", "e", "l", "f", ".", "s", "e", "l", "f">>,
      <<"b", "a", "c", "k", "u", "p">> }

\* the dicts a caller can hold: what get returns for a key
DictsHeld(heap) ==
    {v \in {ConfigGet(heap, k, NoneVal) : k \in ConfigKeys} : v.kind = "ref"}

\* values given to set: a string, a new empty dict (the value "{}" stands
\* for) and a dict got from the configuration before
SetValues(heap) == {StrVal("light"), StrVal("{}")} \cup DictsHeld(heap)

\* __init__ with no configuration file: the defaults, saved
InitConfig ==
    /\ VTTGenerator_init
    /\ config = DefaultConfig
    /\ files = SaveConfig(<<>>, DefaultConfig, "ok")
    /\ tab = <<>>
    /\ threads = <<>>
    /\ calls = <<>>
    /\ op = "init"
    /\ arg = None
    /\ ret = RetNone

config_get(key, default) ==
    /\ op' = "get"
    /\ arg' = [key |-> key, default |-> default]
    /\ ret' = ConfigGet(config, key, default)
    /\ UNCHANGED <<captions, styles, calls, files, config, tab, threads>>

\* set(key, value) with its save; calls counts the set calls
config_set(key, v, outcome) ==
    /\ Len(calls) < MaxSets
    /\ op' = "set"
    /\ \E value \in {IF v = StrVal("{}") THEN Ref(Len(config) + 1) ELSE v} :
           /\ arg' = [key |-> key, value |-> value]
           /\ config' = ConfigSet(IF v = StrVal("{}") THEN Append(config, <<>>)
                                  ELSE config,
                                  key, value)
    /\ files' = SaveConfig(files, config', outcome)
    /\ calls' = Append(calls, Call("set", key))
    /\ ret' = RetNone
    /\ UNCHANGED <<captions, styles, tab, threads>>

NextConfig ==
    \/ \E k \in ConfigKeys : config_get(k, StrVal("default"))
    \/ \E k \in ConfigKeys : \E v \in SetValues(config) :
           \E o \in {"ok", "write raises"} : config_set(k, v, o)

SpecConfig == InitConfig /\ [][NextConfig]_vars

-----------------------------------------------------------------------------
(* Reading the configuration back *)

Missing == [kind |-> "missing"]

IsPrefix(a, b) == Len(a) <= Len(b) /\ SubSeq(b, 1, Len(a)) = a

\* one key path is the beginning of the other
Related(k1, k2) ==
    \/ IsPrefix(Split(k1, "."), Split(k2, "."))
    \/ IsPrefix(Split(k2, "."), Split(k1, "."))

\* the value under a key, dicts in place of their numbers
DeepValue(heap, key) == JsonOf(heap, ConfigGet(heap, key, Missing), {})

\* there are dicts d1 = self.config, d2, ... with d1[k1] = d2, d2[k2] = d3
\* and so on to the last key
PathExists(heap, keys) ==
    \E ds \in [1..Len(keys) -> 1..Len(heap)] :
        /\ ds[1] = RootDict
        /\ \A i \in 1..Len(keys) : HasKey(heap[ds[i]], keys[i])
        /\ \A i \in 1..(Len(keys) - 1) :
               Lookup(heap[ds[i]], keys[i]) = Ref(ds[i + 1])

\* the keys looked at around a set
ProbeKeys == ConfigKeys \cup { <<"a", "p", "p", ".", "n", "a", "m", "e">>, <<"b", "a", "c", "k", "u", "p", ".", "t", "h", "e", "m", "e">> }

\* no dict is stored in two places
NoSharedDict(heap) ==
    \A id \in 1..Len(heap) :
        Cardinality({s \in (1..Len(heap)) \X (1..Len(heap) + 8) :
                        /\ s[2] <= Len(heap[s[1]])
                        /\ heap[s[1]][s[2]][2] = Ref(id)}) <= 1

\* get(k) answers v right after set(k, v), and the value of every key that
\* is neither a beginning nor a continuation of k is as before
SetKeepsOthers ==
    /\ ConfigGet(config', arg'.key, Missing) = arg'.value
    /\ \A k2 \in ProbeKeys :
           ~Related(k2, arg'.key) => DeepValue(config', k2) = DeepValue(config, k2)

\* get of a key path that does not exist answers the default
GetAnswersDefault ==
    ~PathExists(config', Split(arg'.key, ".")) => ret' = arg'.default

-----------------------------------------------------------------------------
(* C25 -- for every dot-notation key k and value v, get(k) returns v right
   after set(k, v); get of a key path that does not exist returns the
   default given; and set(k, v) leaves the value of every key that is
   neither a prefix nor an extension of k unchanged. *)
C25_SetThenGet ==
    [][/\ op' = "set" => SetKeepsOthers
       /\ op' = "get" => GetAnswersDefault]_vars

\* C25 as amended -- the same, for set(k, v) on a configuration in which no
\* dict is stored under more than one key.
C25_SetThenGetUnshared ==
    [][/\ (op' = "set" /\ NoSharedDict(config)) => SetKeepsOthers
       /\ op' = "get" => GetAnswersDefault]_vars

\* a set through two dicts that were not there, after an earlier set, on a
\* configuration without a shared dict
C25_Witness ==
    /\ op = "set"
    /\ Len(calls) = 2
    /\ arg.key = <<"u", "i", ".", "s", "e", "l", "f", ".", "s", "e", "l", "f">>
    /\ arg.value = StrVal("light")
    /\ NoSharedDict(config)
    /\ ConfigGet(config, <<"u", "i", ".", "t", "h", "e", "m", "e">>, Missing) = StrVal("dark")

-----------------------------------------------------------------------------
(* ConfigManager.add_recent_file *)

\* the list is cut to this many entries
RecentLimit == 10

\* a remove that leaves the list as it is
ListRemove_Keeps(l, x) == l

\* l.remove(x): without the first x
ListRemove(l, x) ==
    LET k == CHOOSE i \in 1..Len(l) : l[i] = x /\ \A j \in 1..(i - 1) : l[j] # x
    IN  SubSeq(l, 1, k - 1) \o SubSeq(l, k + 1, Len(l))

\* lines 224-237, without the save
add_recent_file_result(heap, file_path) ==
    With(ConfigGet(heap, <<"r", "e", "c", "e", "n", "t", "_", "f", "i", "l", "e", "s">>, ListVal(<<>>)).val, LAMBDA recent_files :
    With(IF \E i \in 1..Len(recent_files) : recent_files[i] = file_path
         THEN ListRemove(recent_files, file_path) ELSE recent_files,
         LAMBDA removed :
    ConfigSet(heap, <<"r", "e", "c", "e", "n", "t", "_", "f", "i", "l", "e", "s">>,
              ListVal(SubSeq(<<file_path>> \o removed,
                             1, Min(RecentLimit, Len(removed) + 1))))))

\* the number of calls that add a path the list already holds
MaxReAdds == 1

RecentPaths ==
    << StrVal("f01"), StrVal("f02"), StrVal("f03"), StrVal("f04"),
       StrVal("f05"), StrVal("f06"), StrVal("f07"), StrVal("f08"),
       StrVal("f09"), StrVal("f10"), StrVal("f11"), StrVal("f12") >>

\* self.config["recent_files"]
RecentFiles(heap) == Lookup(heap[RootDict], <<"r", "e", "c", "e", "n", "t", "_", "f", "i", "l", "e", "s">>).val

\* paths not in the list: the first of RecentPaths that the list lacks
NewPaths(l) ==
    {RecentPaths[i] : i \in {i \in 1..Len(RecentPaths) :
        /\ \A j \in 1..Len(l) : l[j] # RecentPaths[i]
        /\ \A k \in 1..(i - 1) : \E j \in 1..Len(l) : l[j] = RecentPaths[k]}}

\* paths in the list: its first, its middle and its last
HeldPaths(l) ==
    IF l = <<>> THEN {} ELSE {l[1], l[(Len(l) + 1) \div 2], l[Len(l)]}

InitRecent ==
    /\ VTTGenerator_init
    /\ config = DefaultConfig
    /\ files = SaveConfig(<<>>, DefaultConfig, "ok")
    /\ tab = <<>>
    /\ threads = <<>>
    /\ calls = <<>>
    /\ op = "init"
    /\ arg = None
    /\ ret = RetNone

\* calls holds the calls that added a path again
add_recent_file(file_path, outcome) ==
    /\ \/ file_path \in NewPaths(RecentFiles(config)) /\ calls' = calls
       \/ /\ file_path \in HeldPaths(RecentFiles(config))
          /\ Len(calls) < MaxReAdds
          /\ calls' = Append(calls, Call("add_recent_file", file_path))
    /\ op' = "add_recent_file"
    /\ arg' = file_path
    /\ config' = add_recent_file_result(config, file_path)
    /\ files' = SaveConfig(files, config', outcome)
    /\ ret' = RetNone
    /\ UNCHANGED <<captions, styles, tab, threads>>

NextRecent ==
    \E i \in 1..Len(RecentPaths) : add_recent_file(RecentPaths[i], "ok")

SpecRecent == InitRecent /\ [][NextRecent]_vars

-----------------------------------------------------------------------------
(* Reading the list of recent files back *)

\* l without x
Without(l, x) == SelectSeq(l, LAMBDA y : y # x)

NoDuplicates(l) == \A i, j \in 1..Len(l) : l[i] = l[j] => i = j

-----------------------------------------------------------------------------
(* C24 -- starting from the default configuration, after any sequence of
   add_recent_file calls recent_files has no duplicates and at most 10
   entries, the path added last is first, and the other paths follow in
   the order of their last addition (each call keeps the order the other
   paths had, dropping paths only from the end). *)
C24_RecentFilesOrdered ==
    [][op' = "add_recent_file" =>
        LET old == Without(RecentFiles(config), arg')
            new == RecentFiles(config')
        IN  /\ NoDuplicates(new)
            /\ Len(new) <= 10
            /\ Len(new) = Min(10, Len(old) + 1)
            /\ new[1] = arg'
            /\ \A i \in 2..Len(new) : new[i] = old[i - 1]]_vars

\* a path from the middle of a full list was added again after the oldest
\* path had been dropped
C24_Witness ==
    /\ op = "add_recent_file"
    /\ Len(RecentFiles(config)) = 10
    /\ RecentFiles(config)[1] = arg
    /\ Len(calls) >= 1
    /\ calls[Len(calls)].arg = arg
    /\ arg # StrVal("f01")
    /\ \A i \in 1..10 : RecentFiles(config)[i] # StrVal("f01")

-----------------------------------------------------------------------------
(* C26 -- the cues written by _convert_whisper_to_vtt are numbered 1, 2,
   ..., k in order with no gaps, also when segments with empty text were
   dropped. *)
C26_CueNumbersConsecutive ==
    FromSegments =>
        \A k \in 1..NumCues(Lines(ret.val)) :
            CueLine(Lines(ret.val), k, 1) = IntToStr(k)

\* a dropped segment came before a kept one, and the cue of the kept one
\* carries the position of its segment in the input
C26_NumberSkipped ==
    /\ FromSegments
    /\ Len(arg) = 3
    /\ ~IsBlank(arg[1].text) /\ IsBlank(arg[2].text) /\ ~IsBlank(arg[3].text)
    /\ NumCues(Lines(ret.val)) = 2
    /\ CueLine(Lines(ret.val), 2, 1) = IntToStr(3)

-----------------------------------------------------------------------------
(* Reading the progress indicator back *)

\* the positions in calls of the calls of one name
PositionsOf(name) == {i \in 1..Len(calls) : calls[i].op = name}

\* the indicator as the status bar leaves it after the first n calls:
\* show_progress packs it, hide_progress takes it away, every other call
\* leaves it as it is
RECURSIVE IndicatorShown(_)
IndicatorShown(n) ==
    IF n = 0 THEN FALSE
    ELSE IF calls[n].op = "show_progress" THEN TRUE
    ELSE IF calls[n].op = "hide_progress" THEN FALSE
    ELSE IndicatorShown(n - 1)

-----------------------------------------------------------------------------
(* C27 -- every call of process_media_file that shows the progress
   indicator ends with the indicator hidden: on every path hide_progress
   is called after the last show_progress and update_progress, and
   cleanup() is called on the audio processor, after its last use,
   whenever one was created (and only then). *)
C27_ProgressHiddenAtEnd ==
    (op = "process_media_file" /\ Called("show_progress")) =>
        /\ ~IndicatorShown(Len(calls))
        /\ \E h \in PositionsOf("hide_progress") :
               \A i \in PositionsOf("show_progress") \cup PositionsOf("update_progress") :
                   i < h
        /\ Called("UnifiedAudioProcessor") <=> Called("cleanup")
        /\ \A c \in PositionsOf("cleanup") :
               /\ c = Len(calls)
               /\ \A i \in PositionsOf("UnifiedAudioProcessor") \cup PositionsOf("transcribe_media") :
                      i < c

\* the processor was created, Whisper raised and the fallback raised while
\* extracting: the error was shown, then the indicator hidden and the
\* processor cleaned up
C27_Witness ==
    /\ op = "process_media_file"
    /\ Called("UnifiedAudioProcessor")
    /\ Called("transcribe_media")
    /\ arg.transcribe.kind = "raise"
    /\ Called("extract_audio_from_video")
    /\ Called("show_error")
    /\ ~Called("set_subtitle_text")
    /\ Called("hide_progress")
    /\ Called("cleanup")

-----------------------------------------------------------------------------
(* C29 -- for words_per_chunk >= 1 and end > start every chunk returned by
   generate_word_by_word_caption lies within [start, end] (the last chunk's
   end is not later than end, also when the word count is no multiple of
   words_per_chunk), and the number of chunks is
   ceil(word_count / words_per_chunk).  Stated for texts with at least one
   word. *)
C29_ChunksWithinSpan ==
    (/\ WordsDone
     /\ arg.words_per_chunk >= 1
     /\ ReadMs(arg.end_time) > ReadMs(arg.start_time)
     /\ WordStarts(arg.text) # {})
    => LET n == Cardinality(WordStarts(arg.text))
           w == arg.words_per_chunk
       IN  /\ ret.kind = "list"
           /\ Len(ret.val) = (n + w - 1) \div w
           /\ \A k \in 1..Len(ret.val) :
                  /\ ReadMs(arg.start_time) <= ReadMs(ret.val[k].start)
                  /\ ReadMs(ret.val[k].start) <= ReadMs(ret.val[k].end)
                  /\ ReadMs(ret.val[k].end) <= ReadMs(arg.end_time)

\* three words in chunks of two: two chunks, and the second one ends after
\* the end of the span
C29_LastChunkOvershoots ==
    /\ WordsDone
    /\ arg.words_per_chunk = 2
    /\ Cardinality(WordStarts(arg.text)) = 3
    /\ ReadMs(arg.end_time) > ReadMs(arg.start_time)
    /\ ret.kind = "list"
    /\ Len(ret.val) = 2
    /\ ReadMs(ret.val[2].end) > ReadMs(arg.end_time)

-----------------------------------------------------------------------------
(* VideoPreviewTab: the loaded video, the temporary subtitle file and the
   player threads.  tab holds the fields of the object and the state of the
   play button, files the files of the temporary directory, threads the
   threads play_video has started, calls the players launched.  The texts of
   the labels and of the status bar are left out. *)

\* "WEBVTT" in text
Contains(text, sub) ==
    \E i \in 1..(Len(text) - Len(sub) + 1) :
        SubSeq(text, i, i + Len(sub) - 1) = sub

\* os.path.basename(path)
Basename(path) ==
    LET seps == {i \in 1..Len(path) : path[i] = "/"}
    IN  IF seps = {} THEN path
        ELSE SubSeq(path, (CHOOSE i \in seps : \A j \in seps : j <= i) + 1,
                    Len(path))

\* os.path.splitext(name)[0]: the name up to its last dot, when something
\* other than dots comes before that dot
SplitextRoot(name) ==
    LET dots == {i \in 1..Len(name) : name[i] = "."}
    IN  IF dots = {} THEN name
        ELSE LET last == CHOOSE i \in dots : \A j \in dots : j <= i
             IN  IF \E j \in 1..(last - 1) : name[j] # "."
                 THEN SubSeq(name, 1, last - 1) ELSE name

\* tempfile.gettempdir()
TempDir == <<"/", "t">>

\* lines 308-310: the path of the temporary subtitle file of a video
TempVttFor(video_path) ==
    TempDir \o <<"/">> \o SplitextRoot(Basename(video_path))
    \o <<"_", "s", "u", "b", "t", "i", "t", "l", "e", "s", ".", "v", "t", "t">>

\* os.path.exists(path)
Exists(fs, path) == path \in DOMAIN fs

\* os.unlink(path)
Unlink(fs, path) == [p \in DOMAIN fs \ {path} |-> fs[p]]

\* the fields after __init__, and the play button after setup_ui
VideoPreviewTab_init ==
    [video_path |-> None, vtt_content |-> None, temp_vtt_file |-> None,
     is_playing |-> FALSE, play_btn |-> "disabled"]

\* self.temp_vtt_file and os.path.exists(self.temp_vtt_file)
TempFileExists(t, fs) ==
    t.temp_vtt_file # None /\ Exists(fs, t.temp_vtt_file[1])

\* lines 247-252 and 491-496: a video path is taken
VideoLoaded(t, video_path) ==
    [t EXCEPT !.video_path = Some(video_path), !.play_btn = "normal"]

\* what can go wrong in the try block of sync_current_subtitles
SyncOutcomes == {"ok", "unlink raises", "open raises", "write raises"}

\* lines 287-333: the tab and the files after the call, and whether the
\* subtitles were written
sync_current_subtitles_result(t, fs, editor_text, outcome) ==
    IF t.video_path = None
    THEN [tab |-> t, files |-> fs, synced |-> FALSE]
    ELSE IF editor_text = <<>> \/ ~Contains(editor_text, WEBVTT)
    THEN [tab |-> t, files |-> fs, synced |-> FALSE]
    ELSE With([t EXCEPT !.vtt_content = Some(editor_text)], LAMBDA t1 :
         IF TempFileExists(t, fs) /\ outcome = "unlink raises"
         THEN [tab |-> t1, files |-> fs, synced |-> FALSE]
         ELSE With(IF TempFileExists(t, fs)
                   THEN Unlink(fs, t.temp_vtt_file[1]) ELSE fs, LAMBDA fs1 :
              With(TempVttFor(t.video_path[1]), LAMBDA name :
              With([t1 EXCEPT !.temp_vtt_file = Some(name)], LAMBDA t2 :
              IF outcome = "open raises"
              THEN [tab |-> t2, files |-> fs1, synced |-> FALSE]
              ELSE IF outcome = "write raises"
              THEN [tab |-> t2,
                    files |-> FileWrite(OpenForWrite(fs1, name), name,
                                        PartWritten(editor_text, "half")),
                    synced |-> FALSE]
              ELSE [tab |-> t2,
                    files |-> FileWrite(OpenForWrite(fs1, name), name,
                                        editor_text),
                    synced |-> TRUE]))))

\* lines 488-504: update_preview(video_path, vtt_content), with the text of
\* the editor and the outcome of the sync it may run
update_preview_result(t, fs, video_path, vtt_content, editor_text, outcome) ==
    With(IF video_path # None /\ video_path[1] # <<>>
         THEN VideoLoaded(t, video_path[1]) ELSE t, LAMBDA t1 :
    IF vtt_content # None /\ vtt_content[1] # <<>>
    THEN With([t1 EXCEPT !.vtt_content = vtt_content], LAMBDA t2 :
         IF t2.video_path # None
         THEN sync_current_subtitles_result(t2, fs, editor_text, outcome)
         ELSE [tab |-> t2, files |-> fs, synced |-> FALSE])
    ELSE [tab |-> t1, files |-> fs, synced |-> FALSE])

\* lines 473-477
_reset_playback_state(t) ==
    [t EXCEPT !.is_playing = FALSE, !.play_btn = "normal"]

\* the placeholders of a player's command
VideoPart == <<"{", "v", "i", "d", "e", "o", "}">>
SubtitlePart == <<"{", "s", "u", "b", "t", "i", "t", "l", "e", "}">>

\* lines 40-46 and 88-93: the players every system has, VLC by its name on
\* the PATH and the system's default player
Players ==
    { [name |-> "VLC Media Player", type |-> "desktop",
       command |-> << <<"v", "l", "c">>,
                      <<"-", "-", "s", "u", "b", "-", "f", "i", "l", "e">>,
                      SubtitlePart, VideoPart,
                      <<"-", "-", "p", "l", "a", "y", "-", "a", "n", "d",
                        "-", "e", "x", "i", "t">> >>],
      [name |-> "System Default Player", type |-> "system",
       command |-> <<VideoPart>>] }

\* lines 410-417: the command with the paths the tab holds now
BuildCommand(t, player) ==
    [k \in 1..Len(player.command) |->
        IF player.command[k] = VideoPart THEN t.video_path
        ELSE IF player.command[k] = SubtitlePart THEN t.temp_vtt_file
        ELSE Some(player.command[k])]

-----------------------------------------------------------------------------
(* The tab in use: the handlers run on the main thread, one at a time and
   each to its end; the threads started by play_video run beside them, a
   thread taking one step when it launches the player and one when the
   player it waits for exits. *)

\* the bound on the threads started
MaxPlays == 2

\* videos in two directories, with and without an extension
VideoPaths ==
    { <<"d", "/", "a", ".", "m", "p", "4">>, <<"b">> }

\* what the editor holds: nothing, a text without the header, a document
EditorContents ==
    { <<>>,
      <<"w", "e", "b", "v", "t", "t">>,
      WEBVTT \o <<NL, NL, "1", NL>> }

InitPreview ==
    /\ VTTGenerator_init
    /\ files = <<>>
    /\ config = <<>>
    /\ tab = VideoPreviewTab_init
    /\ threads = <<>>
    /\ calls = <<>>
    /\ op = "init"
    /\ arg = None
    /\ ret = RetNone

\* lines 243-266: the file dialog gave a path
load_video(file_path) ==
    /\ op' = "load_video"
    /\ arg' = None
    /\ tab' = VideoLoaded(tab, file_path)
    /\ ret' = RetNone
    /\ UNCHANGED <<captions, styles, calls, files, config, threads>>

\* lines 287-333
sync_current_subtitles(editor_text, outcome) ==
    /\ op' = "sync_current_subtitles"
    /\ arg' = editor_text
    /\ \E r \in {sync_current_subtitles_result(tab, files, editor_text, outcome)} :
           /\ tab' = r.tab
           /\ files' = r.files
           /\ ret' = IF r.synced THEN RetStr(<<"o", "k">>) ELSE RetNone
    /\ UNCHANGED <<captions, styles, calls, config, threads>>

\* lines 488-504
update_preview(video_path, vtt_content, editor_text, outcome) ==
    /\ op' = "update_preview"
    /\ arg' = None
    /\ \E r \in {update_preview_result(tab, files, video_path, vtt_content,
                                       editor_text, outcome)} :
           /\ tab' = r.tab
           /\ files' = r.files
    /\ ret' = RetNone
    /\ UNCHANGED <<captions, styles, calls, config, threads>>

\* lines 335-371: started is whether Thread(...).start() did not raise
play_video(player, started) ==
    /\ Len(threads) < MaxPlays
    /\ op' = "play_video"
    /\ arg' = None
    /\ ret' = RetNone
    /\ IF tab.video_path = None \/ ~TempFileExists(tab, files)
       THEN UNCHANGED <<tab, threads>>
       ELSE IF started
       THEN /\ tab' = [tab EXCEPT !.is_playing = TRUE, !.play_btn = "disabled"]
            /\ threads' = Append(threads, [pc |-> "start", player |-> player])
       ELSE /\ tab' = _reset_playback_state(
                          [tab EXCEPT !.is_playing = TRUE,
                                      !.play_btn = "disabled"])
            /\ UNCHANGED threads
    /\ UNCHANGED <<captions, styles, calls, files, config>>

\* lines 506-512
cleanup ==
    /\ op' = "cleanup"
    /\ arg' = None
    /\ ret' = RetNone
    /\ files' = IF TempFileExists(tab, files)
                THEN Unlink(files, tab.temp_vtt_file[1]) ELSE files
    /\ UNCHANGED <<captions, styles, calls, config, tab, threads>>

\* lines 395-430, up to the return of os.startfile or the start of the
\* player by subprocess.run: launched is whether the call found its program
_launch_player(i, launched) ==
    /\ i \in 1..Len(threads)
    /\ threads[i].pc = "start"
    /\ op' = "_launch_player"
    /\ arg' = None
    /\ ret' = RetNone
    /\ IF threads[i].player.type = "system"
       THEN /\ calls' = IF tab.video_path # None /\ launched
                        THEN Append(calls, Call("os.startfile", tab.video_path))
                        ELSE calls
            /\ tab' = _reset_playback_state(tab)
            /\ threads' = [threads EXCEPT ![i].pc = "done"]
       ELSE IF launched
       THEN /\ calls' = Append(calls, Call("subprocess.run",
                                           BuildCommand(tab, threads[i].player)))
            /\ threads' = [threads EXCEPT ![i].pc = "running"]
            /\ UNCHANGED tab
       ELSE /\ tab' = _reset_playback_state(tab)
            /\ threads' = [threads EXCEPT ![i].pc = "done"]
            /\ UNCHANGED calls
    /\ UNCHANGED <<captions, styles, files, config>>

\* lines 420-430: the player exits and subprocess.run returns (status 0) or
\* raises CalledProcessError
player_exits(i, status) ==
    /\ i \in 1..Len(threads)
    /\ threads[i].pc = "running"
    /\ op' = "_launch_player"
    /\ arg' = None
    /\ ret' = RetNone
    /\ tab' = IF status = 0 THEN _reset_playback_state(tab) ELSE tab
    /\ threads' = [threads EXCEPT ![i].pc = "done"]
    /\ UNCHANGED <<captions, styles, calls, files, config>>

\* the steps of thread i
ThreadStep(i) ==
    \/ \E launched \in BOOLEAN : _launch_player(i, launched)
    \/ \E status \in {0, 1} : player_exits(i, status)

NextPreview ==
    \/ \E v \in VideoPaths : load_video(v)
    \/ \E e \in EditorContents : \E o \in SyncOutcomes :
           sync_current_subtitles(e, o)
    \/ \E v \in {None} \cup {Some(x) : x \in VideoPaths} :
       \E c \in {None, Some(WEBVTT \o <<NL, NL, "1", NL>>)} :
       \E e \in EditorContents :
           update_preview(v, c, e, "ok")
    \/ \E p \in Players : \E started \in BOOLEAN : play_video(p, started)
    \/ cleanup
    \/ \E i \in 1..MaxPlays : ThreadStep(i)

SpecPreview == InitPreview /\ [][NextPreview]_vars

\* every thread started is scheduled, and the claim is about players that
\* exit
SpecPlayback ==
    SpecPreview /\ \A i \in 1..MaxPlays : WF_vars(ThreadStep(i))

-----------------------------------------------------------------------------
(* C28 -- every play_video call that sets is_playing to True and disables
   the play button is eventually followed by _reset_playback_state
   (is_playing False, play button enabled), whether the player exits
   normally, fails to launch or exits with a non-zero status. *)
C28_PlaybackReset ==
    (tab.is_playing /\ tab.play_btn = "disabled")
        ~> (~tab.is_playing /\ tab.play_btn = "normal")

\* a player has exited with a non-zero status: its thread has ended, no
\* other thread is left and the tab still says it is playing
C28_StillPlaying ==
    /\ op = "_launch_player"
    /\ threads # <<>>
    /\ \A i \in 1..Len(threads) : threads[i].pc = "done"
    /\ tab.is_playing
    /\ tab.play_btn = "disabled"

-----------------------------------------------------------------------------
(* Reading the steps of the tab back *)

\* the text holds the letters WEBVTT in a row
HasHeaderWord(text) ==
    \E i \in 1..Len(text) :
        /\ i + 5 <= Len(text)
        /\ \A k \in 0..5 : text[i + k] = WEBVTT[k + 1]

\* a video is loaded and the subtitles are synced: temp_vtt_file names a
\* file that exists
ReadyToPlay ==
    /\ tab.video_path # None
    /\ tab.temp_vtt_file # None
    /\ \E p \in DOMAIN files : tab.temp_vtt_file = Some(p)

\* this step launches a player
PlayerLaunched == Len(calls') > Len(calls)

\* a player is launched only when a video is loaded and subtitles are synced
LaunchedWhenReady == PlayerLaunched => ReadyToPlay

\* a sync without a video, or with an editor text without WEBVTT, changes
\* nothing
RejectedSyncChangesNothing ==
    (/\ op' = "sync_current_subtitles"
     /\ (tab.video_path = None \/ ~HasHeaderWord(arg')))
    => UNCHANGED <<tab, files, threads, calls>>

\* a successful sync leaves its file as the only temporary file, the file
\* held before being gone unless it is the same path
SyncedHoldsOneFile ==
    (op' = "sync_current_subtitles" /\ ret' # RetNone)
    => /\ DOMAIN files' = {tab'.temp_vtt_file[1]}
       /\ files'[tab'.temp_vtt_file[1]] = arg'
       /\ Cardinality(DOMAIN files) <= 1

-----------------------------------------------------------------------------
(* C30 -- in VideoPreviewTab a media player is launched only in a state
   where a video has been loaded and subtitles have been synced (video_path
   set and temp_vtt_file set to an existing file); sync_current_subtitles
   changes nothing when no video is loaded or the editor text does not
   contain "WEBVTT"; and after any sequence of successful syncs at most one
   temporary subtitle file is held, the previous one having been deleted
   first. *)
C30_LaunchOnlyWhenSynced ==
    [][/\ LaunchedWhenReady
       /\ RejectedSyncChangesNothing
       /\ SyncedHoldsOneFile]_vars

\* a player was launched by a thread while temp_vtt_file named no file
C30_LaunchedWithoutSubtitles ==
    /\ op = "_launch_player"
    /\ calls # <<>>
    /\ calls[Len(calls)].op = "subprocess.run"
    /\ tab.temp_vtt_file # None
    /\ ~\E p \in DOMAIN files : tab.temp_vtt_file = Some(p)

====
